---------------------------- MODULE Spec2Model ----------------------------
(***************************************************************************)
(* did:webvh log validator and replay engine (src/src/method.ts) with its  *)
(* assertions (src/src/interfaces.ts, second half) and the witness         *)
(* verifier (src/unnamed/part_006).                                        *)
(*                                                                         *)
(* Strings are modelled as sequences of tokens ("texts"), so that the      *)
(* textual operations of the code (split, startsWith, replaceAll) are      *)
(* computed as the code computes them.  A token is either a literal or an  *)
(* opaque hash value that remembers its preimage: two hashes are equal iff *)
(* their preimages are (collision freedom of SHA-256).                     *)
(***************************************************************************)
EXTENDS Integers, Sequences, FiniteSets, TLC

(***************************************************************************)
(* Bounds of the model.                                                    *)
(***************************************************************************)
MaxLen == 3

(***************************************************************************)
(* Texts.                                                                  *)
(***************************************************************************)
L(s) == [lit |-> s, pre |-> <<>>]

T(s) == <<L(s)>>

Str(ss) == [i \in 1..Len(ss) |-> L(ss[i])]

StartsWith(s, p) == Len(s) >= Len(p) /\ SubSeq(s, 1, Len(p)) = p

\* s.replaceAll(pat, rep): the occurrences of pat are replaced from left to
\* right, without overlap
RECURSIVE ReplaceFrom(_, _, _, _)
ReplaceFrom(s, pat, rep, from) ==
  LET M == {i \in from..(Len(s) - Len(pat) + 1) : SubSeq(s, i, i + Len(pat) - 1) = pat}
  IN  IF M = {} THEN SubSeq(s, from, Len(s))
      ELSE LET i == CHOOSE m \in M : \A n \in M : m <= n
           IN  SubSeq(s, from, i - 1) \o rep \o ReplaceFrom(s, pat, rep, i + Len(pat))

ReplaceAll(s, pat, rep) == IF Len(pat) = 0 THEN s ELSE ReplaceFrom(s, pat, rep, 1)

\* positions of the separator token sep in s
SepPositions(s, sep) == {i \in 1..Len(s) : s[i] = L(sep)}

\* s.split(sep)[0]
SplitFirst(s, sep) ==
  LET P == SepPositions(s, sep)
  IN  IF P = {} THEN s
      ELSE SubSeq(s, 1, (CHOOSE i \in P : \A j \in P : i <= j) - 1)

\* s.split(sep).at(-1)
SplitLast(s, sep) ==
  LET P == SepPositions(s, sep)
  IN  IF P = {} THEN s
      ELSE SubSeq(s, (CHOOSE i \in P : \A j \in P : i >= j) + 1, Len(s))

\* the text after the first separator (s.split(sep).slice(1) joined again)
AfterFirst(s, sep) ==
  LET P == SepPositions(s, sep)
  IN  IF P = {} THEN <<>>
      ELSE SubSeq(s, (CHOOSE i \in P : \A j \in P : i <= j) + 1, Len(s))

\* s.split(sep).length
SplitCount(s, sep) == Cardinality(SepPositions(s, sep)) + 1

RECURSIVE Concat(_)
Concat(ts) == IF ts = <<>> THEN <<>> ELSE Head(ts) \o Concat(Tail(ts))


(***************************************************************************)
(* Optional values (undefined in the code) and the witness parameter,      *)
(* which is undefined, null or an object.                                  *)
(***************************************************************************)
None == <<>>

Some(v) == <<v>>

IsSome(o) == o # <<>>

\* the watchers option of a mutator: undefined, null or a list of URLs
Watchers(tag, urls) == [tag |-> tag, urls |-> urls]

NoWatchers == Watchers("undefined", <<>>)

WUndefined == [tag |-> "undefined", witnesses |-> <<>>, threshold |-> 0]

WNull == [tag |-> "null", witnesses |-> <<>>, threshold |-> 0]

WValue(ws, t) == [tag |-> "value", witnesses |-> ws, threshold |-> t]

\* JavaScript truthiness of a witness value: an object is truthy
WTruthy(w) == w.tag = "value"

(***************************************************************************)
(* Constants of the method (src/src/constants.ts is imported by method.ts) *)
(***************************************************************************)
PLACEHOLDER == T("{SCID}")

PROTOCOL == T("did:webvh:1.0")

DidKeyPrefix == Str(<<"did", ":", "key", ":">>)

DidWebvhPrefix == Str(<<"did", ":", "webvh", ":">>)

\* `did:key:${publicKeyMultibase}#${publicKeyMultibase}`
DidKeyVM(k) == DidKeyPrefix \o k \o T("#") \o k

\* `did:webvh:${scid}:${domain}`
WebvhDID(scid, domain) == DidWebvhPrefix \o scid \o T(":") \o domain

(***************************************************************************)
(* Hashing.  createHash is SHA-256; deriveHash and deriveNextKeyHash frame *)
(* the digest as a multihash and encode it in base58btc.                   *)
(***************************************************************************)
createHash(text) == [lit |-> "sha256", pre |-> text]

encodeBase58BtcMultihash(digest) == [lit |-> "zQm", pre |-> digest.pre]

\* deriveHash(input): input is given by its canonical text
deriveHash(canon) == <<encodeBase58BtcMultihash(createHash(canon))>>

deriveNextKeyHash(key) == <<encodeBase58BtcMultihash(createHash(key))>>

createSCID(logEntryHash) == logEntryHash

(***************************************************************************)
(* JSON texts of the parts of a log entry.                                 *)
(***************************************************************************)
Field(name, valueText) == <<L(name), L("=")>> \o valueText \o T(";")

OptField(name, opt) == IF IsSome(opt) THEN Field(name, opt[1]) ELSE <<>>

BoolText(b) == IF b THEN T("true") ELSE T("false")

OptBoolField(name, opt) == IF IsSome(opt) THEN Field(name, BoolText(opt[1])) ELSE <<>>

RECURSIVE ListItems(_)
ListItems(ts) ==
  IF ts = <<>> THEN <<>> ELSE Head(ts) \o T(",") \o ListItems(Tail(ts))

ListText(ts) == T("[") \o ListItems(ts) \o T("]")

OptListField(name, opt) == IF IsSome(opt) THEN Field(name, ListText(opt[1])) ELSE <<>>

WitnessIds(w) == [i \in 1..Len(w.witnesses) |-> w.witnesses[i].id]

WitnessText(w) ==
  IF w.tag = "undefined" THEN <<>>
  ELSE IF w.tag = "null" THEN Field("witness", T("null"))
  ELSE Field("witness", T("{") \o Field("threshold", T(ToString(w.threshold)))
                        \o Field("witnesses", ListText(WitnessIds(w))) \o T("}"))

\* JSON.stringify(parameters)
ParamsText(p) ==
  T("{") \o OptField("method", p.method) \o OptField("scid", p.scid)
         \o OptListField("updateKeys", p.updateKeys)
         \o OptBoolField("portable", p.portable)
         \o OptListField("nextKeyHashes", p.nextKeyHashes)
         \o WitnessText(p.witness)
         \o OptListField("witnesses", IF IsSome(p.witnesses)
                                      THEN Some([i \in 1..Len(p.witnesses[1]) |-> p.witnesses[1][i].id])
                                      ELSE None)
         \o (IF p.witnessThreshold > 0 THEN Field("witnessThreshold", T(ToString(p.witnessThreshold))) ELSE <<>>)
         \o OptBoolField("deactivated", p.deactivated) \o T("}")

ServiceText(sv) == T("{") \o Field("id", sv.id) \o Field("serviceEndpoint", sv.serviceEndpoint) \o T("}")

\* JSON.stringify(state)
StateText(st) ==
  T("{") \o Field("id", st.id) \o Field("controller", st.controller)
         \o Field("verificationMethod", ListText(st.verificationMethod))
         \o OptListField("service", IF IsSome(st.service)
                                    THEN Some([i \in 1..Len(st.service[1]) |-> ServiceText(st.service[1][i])])
                                    ELSE None)
         \o T("}")

\* the text of {versionId, versionTime, parameters, state}
EntryText(versionId, versionTime, paramsText, stateText) ==
  T("{") \o Field("versionId", versionId) \o Field("versionTime", versionTime)
         \o Field("parameters", paramsText) \o Field("state", stateText) \o T("}")

TimeText(t) == T(ToString(t))

\* canonicalize(rest) for a stored entry: the entry without its proof
RestText(e) == EntryText(e.versionId, TimeText(e.versionTime), ParamsText(e.parameters), StateText(e.state))

\* canonicalize(restProof): the proof without its proofValue
ProofText(pr) ==
  T("{") \o Field("type", T(pr.type)) \o Field("cryptosuite", T(pr.cryptosuite))
         \o Field("verificationMethod", pr.verificationMethod)
         \o Field("proofPurpose", T(pr.proofPurpose)) \o T("}")

\* concatBuffers(proofHash, dataHash)
SigningInput(proofText, dataText) == <<createHash(proofText), createHash(dataText)>>

(***************************************************************************)
(* The injected cryptography: a signature names the key that made it and   *)
(* the message it was made over; an Ed25519 verifier accepts exactly the   *)
(* signatures made by the key over the message.                            *)
(***************************************************************************)
Signature(key, msg) == [by |-> key, msg |-> msg]

VerifierVerify(signature, message, publicKey) ==
  signature.by = publicKey /\ signature.msg = message

(***************************************************************************)
(* The environment of a resolution.  The test-only bypass switches of      *)
(* config.getEnvValue are not set.  A did:webvh verification method is     *)
(* fetched over the network: the fetch throws, or the remote log resolves  *)
(* to a document without the method, or to the method with some key.       *)
(***************************************************************************)
IGNORE_ASSERTION_KEY_IS_AUTHORIZED == FALSE

IGNORE_WITNESS_IS_AUTHORIZED == FALSE

IGNORE_ASSERTION_DOCUMENT_STATE_IS_VALID == FALSE

IGNORE_ASSERTION_HASH_CHAIN_IS_VALID == FALSE

IGNORE_ASSERTION_NEW_KEYS_ARE_VALID == FALSE

IGNORE_ASSERTION_SCID_IS_FROM_HASH == FALSE

RemoteThrows == [tag |-> "throws", key |-> <<>>]

RemoteNotFound == [tag |-> "null", key |-> <<>>]

RemoteKey(k) == [tag |-> "vm", key |-> k]

\* resolveVM(vm): [tag |-> "throws" | "null" | "vm", key |-> publicKeyMultibase]
resolveVM(vm, remote) ==
  IF StartsWith(vm, DidKeyPrefix)
  THEN RemoteKey(SplitFirst(SubSeq(vm, Len(DidKeyPrefix) + 1, Len(vm)), "#"))
  ELSE IF StartsWith(vm, DidWebvhPrefix) THEN remote
  ELSE RemoteThrows

\* multibaseDecode(publicKeyMultibase).bytes starts with 0xed 0x01
HasEd25519Header(publicKeyMultibase) ==
  Len(publicKeyMultibase) = 1 /\ publicKeyMultibase[1].lit \in {"z6Mk1", "z6Mk2", "z6Mk3", "z6MkW1", "z6MkW2", "z6MkW3"}

(***************************************************************************)
(* Assertions (src/src/interfaces.ts, lines 175-307).                      *)
(***************************************************************************)
UpdateKeyPart(updateKey) ==
  IF StartsWith(updateKey, DidKeyPrefix)
  THEN SplitFirst(SubSeq(updateKey, Len(DidKeyPrefix) + 1, Len(updateKey)), "#")
  ELSE updateKey

isKeyAuthorized(verificationMethod, updateKeys) ==
  IF IGNORE_ASSERTION_KEY_IS_AUTHORIZED THEN TRUE
  ELSE IF StartsWith(verificationMethod, DidKeyPrefix)
  THEN LET key == SplitFirst(SubSeq(verificationMethod, Len(DidKeyPrefix) + 1, Len(verificationMethod)), "#")
       IN  \E i \in 1..Len(updateKeys) : UpdateKeyPart(updateKeys[i]) = key
  ELSE FALSE

isWitnessAuthorized(verificationMethod, witnesses) ==
  IF IGNORE_WITNESS_IS_AUTHORIZED THEN TRUE
  ELSE IF StartsWith(verificationMethod, DidWebvhPrefix)
  THEN \E i \in 1..Len(witnesses) : witnesses[i] = SplitFirst(verificationMethod, "#")
  ELSE FALSE

\* variant: duplicate witness ids are not looked for
validateWitnessParameter_NoDuplicateCheck(witness) ==
  IF Len(witness.witnesses) = 0 THEN "Witness list cannot be empty"
  ELSE IF witness.threshold < 1 \/ witness.threshold > Len(witness.witnesses)
  THEN "Witness threshold must be between 1 and the number of witnesses"
  ELSE IF \E i \in 1..Len(witness.witnesses) : ~StartsWith(witness.witnesses[i].id, DidKeyPrefix)
  THEN "Witness DIDs must be did:key format"
  ELSE ""

\* validateWitnessParameter(witness): "" when it returns, else the error thrown
validateWitnessParameter(witness) ==
  IF Len(witness.witnesses) = 0 THEN "Witness list cannot be empty"
  ELSE IF witness.threshold < 1 \/ witness.threshold > Len(witness.witnesses)
  THEN "Witness threshold must be between 1 and the number of witnesses"
  ELSE IF \E i \in 1..Len(witness.witnesses) :
            /\ \A j \in 1..(i - 1) : /\ StartsWith(witness.witnesses[j].id, DidKeyPrefix)
                                     /\ \A k \in 1..(j - 1) : witness.witnesses[k].id # witness.witnesses[j].id
            /\ ~StartsWith(witness.witnesses[i].id, DidKeyPrefix)
  THEN "Witness DIDs must be did:key format"
  ELSE IF \E i, j \in 1..Len(witness.witnesses) : i < j /\ witness.witnesses[i].id = witness.witnesses[j].id
  THEN "Duplicate witness id"
  ELSE ""

\* one iteration of the proof loop of documentStateIsValid up to the call of
\* verifier.verify (lines 233-262): "" when the verifier is to be called, else
\* the error thrown.  updateKeys is optional (undefined).
ProofPrecheck(proof, updateKeys, witness, remote) ==
  LET vmId == proof.verificationMethod
      vm   == resolveVM(vmId, remote)
  IN
  IF StartsWith(vmId, DidKeyPrefix) /\ ~IGNORE_ASSERTION_KEY_IS_AUTHORIZED /\ ~IsSome(updateKeys)
  THEN "TypeError"
  ELSE IF StartsWith(vmId, DidKeyPrefix) /\ ~isKeyAuthorized(vmId, updateKeys[1])
  THEN "Key is not authorized to update."
  ELSE IF /\ ~StartsWith(vmId, DidKeyPrefix) /\ StartsWith(vmId, DidWebvhPrefix)
          /\ WTruthy(witness) /\ Len(witness.witnesses) > 0
          /\ ~isWitnessAuthorized(vmId, WitnessIds(witness))
  THEN "Key is not from an authorized witness."
  ELSE IF ~StartsWith(vmId, DidKeyPrefix) /\ ~StartsWith(vmId, DidWebvhPrefix)
  THEN "Unsupported verification method"
  ELSE IF proof.type # "DataIntegrityProof" THEN "Unknown proof type"
  ELSE IF proof.proofPurpose \notin {"authentication", "assertionMethod"} THEN "Unknown proof purpose"
  ELSE IF proof.cryptosuite # "eddsa-jcs-2022" THEN "Unknown cryptosuite"
  ELSE IF vm.tag = "throws" THEN "Error resolving VM"
  ELSE IF vm.tag = "null" THEN "Verification Method not found"
  ELSE IF ~HasEd25519Header(vm.key) THEN "multiKey doesn't include ed25519 header (0xed01)"
  ELSE ""

\* lines 264-278: verifier.verify(signature, input, publicKey.slice(2)) on a
\* proof that passed the checks before it
ProofVerifies(restText, proof, remote) ==
  VerifierVerify(proof.proofValue, SigningInput(ProofText(proof), restText),
                 resolveVM(proof.verificationMethod, remote).key)

\* one iteration of the proof loop of documentStateIsValid (lines 233-278):
\* the checks of ProofPrecheck, then verifier.verify; "" when the proof
\* passes, else the error thrown
CheckProof(restText, proof, updateKeys, witness, remote) ==
  LET vmId == proof.verificationMethod
      vm   == resolveVM(vmId, remote)
  IN
  IF StartsWith(vmId, DidKeyPrefix) /\ ~IGNORE_ASSERTION_KEY_IS_AUTHORIZED /\ ~IsSome(updateKeys)
  THEN "TypeError"
  ELSE IF StartsWith(vmId, DidKeyPrefix) /\ ~isKeyAuthorized(vmId, updateKeys[1])
  THEN "Key is not authorized to update."
  ELSE IF /\ ~StartsWith(vmId, DidKeyPrefix) /\ StartsWith(vmId, DidWebvhPrefix)
          /\ WTruthy(witness) /\ Len(witness.witnesses) > 0
          /\ ~isWitnessAuthorized(vmId, WitnessIds(witness))
  THEN "Key is not from an authorized witness."
  ELSE IF ~StartsWith(vmId, DidKeyPrefix) /\ ~StartsWith(vmId, DidWebvhPrefix)
  THEN "Unsupported verification method"
  ELSE IF proof.type # "DataIntegrityProof" THEN "Unknown proof type"
  ELSE IF proof.proofPurpose \notin {"authentication", "assertionMethod"} THEN "Unknown proof purpose"
  ELSE IF proof.cryptosuite # "eddsa-jcs-2022" THEN "Unknown cryptosuite"
  ELSE IF vm.tag = "throws" THEN "Error resolving VM"
  ELSE IF vm.tag = "null" THEN "Verification Method not found"
  ELSE IF ~HasEd25519Header(vm.key) THEN "multiKey doesn't include ed25519 header (0xed01)"
  ELSE IF ~VerifierVerify(proof.proofValue, SigningInput(ProofText(proof), restText), vm.key)
  THEN "Proof failed verification"
  ELSE ""

RECURSIVE ProofLoop(_, _, _, _, _, _)
ProofLoop(restText, proofs, i, updateKeys, witness, remote) ==
  IF i > Len(proofs) THEN ""
  ELSE LET err == CheckProof(restText, proofs[i], updateKeys, witness, remote)
       IN  IF err # "" THEN err
           ELSE ProofLoop(restText, proofs, i + 1, updateKeys, witness, remote)

\* variant: the presence of a verifier is not checked
documentStateIsValid_NoVerifierCheck(restText, proofs, updateKeys, witness, skipWitnessVerification, verifier, remote) ==
  IF IGNORE_ASSERTION_DOCUMENT_STATE_IS_VALID THEN ""
  ELSE IF /\ WTruthy(witness) /\ Len(witness.witnesses) > 0 /\ ~skipWitnessVerification
          /\ validateWitnessParameter(witness) # ""
  THEN validateWitnessParameter(witness)
  ELSE ProofLoop(restText, proofs, 1, updateKeys, witness, remote)

\* documentStateIsValid(doc, updateKeys, witness, skipWitnessVerification, verifier):
\* "" when it returns true, else the error thrown.  doc is given by the text of
\* the entry without its proof, and by its proofs.
documentStateIsValid(restText, proofs, updateKeys, witness, skipWitnessVerification, verifier, remote) ==
  IF IGNORE_ASSERTION_DOCUMENT_STATE_IS_VALID THEN ""
  ELSE IF ~verifier THEN "Verifier implementation is required"
  ELSE IF /\ WTruthy(witness) /\ Len(witness.witnesses) > 0 /\ ~skipWitnessVerification
          /\ validateWitnessParameter(witness) # ""
  THEN validateWitnessParameter(witness)
  ELSE ProofLoop(restText, proofs, 1, updateKeys, witness, remote)

hashChainValid(derivedHash, logEntryHash) ==
  IF IGNORE_ASSERTION_HASH_CHAIN_IS_VALID THEN TRUE ELSE derivedHash = logEntryHash

\* variant: the pre-rotation commitment is not checked
newKeysAreInNextKeys_Skipped(updateKeys, previousNextKeyHashes) == TRUE

\* newKeysAreInNextKeys: TRUE when it returns, FALSE when it throws
newKeysAreInNextKeys(updateKeys, previousNextKeyHashes) ==
  IF IGNORE_ASSERTION_NEW_KEYS_ARE_VALID THEN TRUE
  ELSE IF Len(previousNextKeyHashes) > 0
  THEN \A i \in 1..Len(updateKeys) :
         \E j \in 1..Len(previousNextKeyHashes) : previousNextKeyHashes[j] = deriveNextKeyHash(updateKeys[i])
  ELSE TRUE

\* variant: the SCID check is skipped
scidIsFromHash_Skipped(scid, hash) == TRUE

scidIsFromHash(scid, hash) ==
  IF IGNORE_ASSERTION_SCID_IS_FROM_HASH THEN TRUE ELSE scid = createSCID(hash)

(***************************************************************************)
(* Witness verifier (src/unnamed/part_006, lines 311-441).                 *)
(***************************************************************************)
\* variant: a proof of no declared witness is taken for one of the first witness
FindWitness_AnyProof(witness, verificationMethod) ==
  LET M == {i \in 1..Len(witness.witnesses) : StartsWith(verificationMethod, witness.witnesses[i].id)}
  IN  IF M = {} THEN 1 ELSE CHOOSE i \in M : \A j \in M : i <= j

\* currentWitness.witnesses.find(w => proof.verificationMethod.startsWith(w.id)):
\* the index of the first such witness, 0 when there is none
FindWitness(witness, verificationMethod) ==
  LET M == {i \in 1..Len(witness.witnesses) : StartsWith(verificationMethod, witness.witnesses[i].id)}
  IN  IF M = {} THEN 0 ELSE CHOOSE i \in M : \A j \in M : i <= j

\* multibaseDecode(publicKeyMultibase).bytes.length = 34
PublicKeyLengthIs34(publicKeyMultibase) == HasEd25519Header(publicKeyMultibase)

\* canonicalize({versionId: logEntry.versionId})
WitnessDataText(versionId) == T("{") \o Field("versionId", versionId) \o T("}")

\* variant: the cryptosuite of a witness proof is not looked at
RECURSIVE WitnessLoop_AnyCryptosuite(_, _, _, _, _, _, _)
WitnessLoop_AnyCryptosuite(proofs, i, approvals, processedWitnesses, versionId, currentWitness, remote) ==
  IF i > Len(proofs) THEN [error |-> "", approvals |-> approvals]
  ELSE
    LET proof == proofs[i]
        w     == FindWitness(currentWitness, proof.verificationMethod)
        vm    == resolveVM(proof.verificationMethod, remote)
        input == SigningInput(ProofText(proof), WitnessDataText(versionId))
    IN
    IF w = 0
    THEN [error |-> "Proof from unauthorized witness", approvals |-> approvals]
    ELSE IF currentWitness.witnesses[w].id \in processedWitnesses
    THEN WitnessLoop_AnyCryptosuite(proofs, i + 1, approvals, processedWitnesses, versionId,
                                    currentWitness, remote)
    ELSE IF vm.tag = "throws"
    THEN [error |-> "Invalid witness proof: Error resolving VM", approvals |-> approvals]
    ELSE IF vm.tag = "null"
    THEN [error |-> "Invalid witness proof: Verification Method not found", approvals |-> approvals]
    ELSE IF ~PublicKeyLengthIs34(vm.key)
    THEN [error |-> "Invalid witness proof: Invalid public key length", approvals |-> approvals]
    ELSE IF ~VerifierVerify(proof.proofValue, input, vm.key)
    THEN [error |-> "Invalid witness proof: Invalid witness proof signature", approvals |-> approvals]
    ELSE WitnessLoop_AnyCryptosuite(proofs, i + 1, approvals + 1,
                                    processedWitnesses \cup {currentWitness.witnesses[w].id},
                                    versionId, currentWitness, remote)

\* variant: a witness that was counted is counted again
RECURSIVE WitnessLoop_CountsDuplicates(_, _, _, _, _, _, _)
WitnessLoop_CountsDuplicates(proofs, i, approvals, processedWitnesses, versionId, currentWitness, remote) ==
  IF i > Len(proofs) THEN [error |-> "", approvals |-> approvals]
  ELSE
    LET proof == proofs[i]
        w     == FindWitness(currentWitness, proof.verificationMethod)
        vm    == resolveVM(proof.verificationMethod, remote)
        input == SigningInput(ProofText(proof), WitnessDataText(versionId))
    IN
    IF proof.cryptosuite # "eddsa-jcs-2022"
    THEN [error |-> "Invalid witness proof cryptosuite", approvals |-> approvals]
    ELSE IF w = 0
    THEN [error |-> "Proof from unauthorized witness", approvals |-> approvals]
    ELSE IF vm.tag = "throws"
    THEN [error |-> "Invalid witness proof: Error resolving VM", approvals |-> approvals]
    ELSE IF vm.tag = "null"
    THEN [error |-> "Invalid witness proof: Verification Method not found", approvals |-> approvals]
    ELSE IF ~PublicKeyLengthIs34(vm.key)
    THEN [error |-> "Invalid witness proof: Invalid public key length", approvals |-> approvals]
    ELSE IF ~VerifierVerify(proof.proofValue, input, vm.key)
    THEN [error |-> "Invalid witness proof: Invalid witness proof signature", approvals |-> approvals]
    ELSE WitnessLoop_CountsDuplicates(proofs, i + 1, approvals + 1,
                                      processedWitnesses \cup {currentWitness.witnesses[w].id},
                                      versionId, currentWitness, remote)

\* variant: a proof whose signature the verifier rejects is skipped
RECURSIVE WitnessLoop_SkipsRejected(_, _, _, _, _, _, _)
WitnessLoop_SkipsRejected(proofs, i, approvals, processedWitnesses, versionId, currentWitness, remote) ==
  IF i > Len(proofs) THEN [error |-> "", approvals |-> approvals]
  ELSE
    LET proof == proofs[i]
        w     == FindWitness(currentWitness, proof.verificationMethod)
        vm    == resolveVM(proof.verificationMethod, remote)
        input == SigningInput(ProofText(proof), WitnessDataText(versionId))
    IN
    IF proof.cryptosuite # "eddsa-jcs-2022"
    THEN [error |-> "Invalid witness proof cryptosuite", approvals |-> approvals]
    ELSE IF w = 0
    THEN [error |-> "Proof from unauthorized witness", approvals |-> approvals]
    ELSE IF currentWitness.witnesses[w].id \in processedWitnesses
    THEN WitnessLoop_SkipsRejected(proofs, i + 1, approvals, processedWitnesses, versionId,
                                   currentWitness, remote)
    ELSE IF vm.tag = "throws"
    THEN [error |-> "Invalid witness proof: Error resolving VM", approvals |-> approvals]
    ELSE IF vm.tag = "null"
    THEN [error |-> "Invalid witness proof: Verification Method not found", approvals |-> approvals]
    ELSE IF ~PublicKeyLengthIs34(vm.key)
    THEN [error |-> "Invalid witness proof: Invalid public key length", approvals |-> approvals]
    ELSE IF ~VerifierVerify(proof.proofValue, input, vm.key)
    THEN WitnessLoop_SkipsRejected(proofs, i + 1, approvals, processedWitnesses, versionId,
                                   currentWitness, remote)
    ELSE WitnessLoop_SkipsRejected(proofs, i + 1, approvals + 1,
                                   processedWitnesses \cup {currentWitness.witnesses[w].id},
                                   versionId, currentWitness, remote)

\* the loop over the proofs of the proof sets, in order: the state is the
\* approval count and the set of processed witness ids; the result is the
\* error thrown, or "" with the final count
RECURSIVE WitnessLoop(_, _, _, _, _, _, _)
WitnessLoop(proofs, i, approvals, processedWitnesses, versionId, currentWitness, remote) ==
  IF i > Len(proofs) THEN [error |-> "", approvals |-> approvals]
  ELSE
    LET proof == proofs[i]
        w     == FindWitness(currentWitness, proof.verificationMethod)
        vm    == resolveVM(proof.verificationMethod, remote)
        input == SigningInput(ProofText(proof), WitnessDataText(versionId))
    IN
    IF proof.cryptosuite # "eddsa-jcs-2022"
    THEN [error |-> "Invalid witness proof cryptosuite", approvals |-> approvals]
    ELSE IF w = 0
    THEN [error |-> "Proof from unauthorized witness", approvals |-> approvals]
    ELSE IF currentWitness.witnesses[w].id \in processedWitnesses
    THEN WitnessLoop(proofs, i + 1, approvals, processedWitnesses, versionId, currentWitness, remote)
    ELSE IF vm.tag = "throws"
    THEN [error |-> "Invalid witness proof: Error resolving VM", approvals |-> approvals]
    ELSE IF vm.tag = "null"
    THEN [error |-> "Invalid witness proof: Verification Method not found", approvals |-> approvals]
    ELSE IF ~PublicKeyLengthIs34(vm.key)
    THEN [error |-> "Invalid witness proof: Invalid public key length", approvals |-> approvals]
    ELSE IF ~VerifierVerify(proof.proofValue, input, vm.key)
    THEN [error |-> "Invalid witness proof: Invalid witness proof signature", approvals |-> approvals]
    ELSE WitnessLoop(proofs, i + 1, approvals + 1,
                     processedWitnesses \cup {currentWitness.witnesses[w].id},
                     versionId, currentWitness, remote)

\* the proofs of all proof sets, in the order the nested loops visit them
RECURSIVE AllProofs(_)
AllProofs(witnessProofs) ==
  IF witnessProofs = <<>> THEN <<>>
  ELSE Head(witnessProofs).proof \o AllProofs(Tail(witnessProofs))

\* variant: only the first proof is looked at
verifyWitnessProofs_FirstProofOnly(versionId, witnessProofs, currentWitness, verifier, remote) ==
  IF ~verifier THEN "Verifier implementation is required"
  ELSE LET all == AllProofs(witnessProofs)
           r   == WitnessLoop(IF all = <<>> THEN <<>> ELSE <<all[1]>>, 1, 0, {}, versionId,
                              currentWitness, remote)
       IN  IF r.error # "" THEN r.error
           ELSE IF r.approvals < currentWitness.threshold THEN "Witness threshold not met"
           ELSE ""

\* verifyWitnessProofs(logEntry, witnessProofs, currentWitness, verifier):
\* "" when it returns, else the error thrown
verifyWitnessProofs(versionId, witnessProofs, currentWitness, verifier, remote) ==
  IF ~verifier THEN "Verifier implementation is required"
  ELSE LET r == WitnessLoop(AllProofs(witnessProofs), 1, 0, {}, versionId, currentWitness, remote)
       IN  IF r.error # "" THEN r.error
           ELSE IF r.approvals < currentWitness.threshold THEN "Witness threshold not met"
           ELSE ""

(***************************************************************************)
(* Identifier utilities (src/src/utils.ts).                                *)
(***************************************************************************)
\* decodeURIComponent on the tokens of a DID: %3A is the encoded colon
PercentDecode(text) == [i \in 1..Len(text) |-> IF text[i] = L("%3A") THEN L(":") ELSE text[i]]

\* the text after the n-th separator
RECURSIVE AfterNth(_, _, _)
AfterNth(s, sep, n) == IF n = 0 THEN s ELSE AfterNth(AfterFirst(s, sep), sep, n - 1)

\* decodeURIComponent throws URIError on a percent sign that starts no escape
MalformedEscape(text) == \E i \in 1..Len(text) : text[i] = L("%")

\* getBaseUrl(id): None when it throws
getBaseUrl(id) ==
  IF ~StartsWith(id, DidWebvhPrefix) \/ SplitCount(id, ":") < 4 THEN None
  ELSE IF MalformedEscape(AfterNth(id, ":", 3)) THEN None
  ELSE LET tail      == AfterNth(id, ":", 3)
           joined    == [i \in 1..Len(tail) |-> IF tail[i] = L(":") THEN L("/") ELSE tail[i]]
           remainder == PercentDecode(joined)
           protocol  == IF \E i \in 1..Len(remainder) : remainder[i] = L("localhost")
                        THEN T("http") ELSE T("https")
       IN  Some(protocol \o T("://") \o remainder)

\* variant: only the first method of the document is looked at
findVerificationMethod_FirstOnly(doc, vmId) ==
  Len(doc.verificationMethod) > 0 /\ doc.verificationMethod[1] = vmId

\* findVerificationMethod(doc, vmId) finds a method
findVerificationMethod(doc, vmId) ==
  \E i \in 1..Len(doc.verificationMethod) : doc.verificationMethod[i] = vmId

(***************************************************************************)
(* resolveDIDFromLog (src/src/method.ts, lines 90-261).                    *)
(***************************************************************************)
NaN == 0 - 1

MaxVersion == MaxLen + 2

DigitVal(tok) ==
  IF \E n \in 0..MaxVersion : tok.lit = ToString(n)
  THEN CHOOSE n \in 0..MaxVersion : tok.lit = ToString(n)
  ELSE NaN

\* parseInt(version): leading zeros and trailing non-digits are ignored
parseInt(text) ==
  IF text = <<>> THEN NaN
  ELSE IF Len(text) > 1 /\ text[1] = L("0") /\ DigitVal(text[2]) # NaN THEN DigitVal(text[2])
  ELSE DigitVal(text[1])

\* const [version, entryHash] = versionId.split('-')
VersionOf(versionId) == SplitFirst(versionId, "-")

EntryHashOf(versionId) ==
  IF SepPositions(versionId, "-") = {} THEN T("undefined")
  ELSE SplitFirst(AfterFirst(versionId, "-"), "-")

NumText(n) == T(ToString(n))

\* lines 101-114: the meta the replay starts from.  It has no watchers, and
\* no line of resolveDIDFromLog gives it any: reading meta.watchers yields
\* undefined
InitialMeta ==
  [versionId |-> <<>>, created |-> 0, updated |-> 0, previousLogEntryHash |-> <<>>,
   scid |-> Some(<<>>), prerotation |-> FALSE, portable |-> FALSE, nextKeyHashes |-> <<>>,
   deactivated |-> FALSE, updateKeys |-> Some(<<>>), witness |-> WUndefined,
   watchers |-> None]

\* the string a possibly undefined scid is coerced to by replaceAll
ScidPattern(scid) == IF IsSome(scid) THEN scid[1] ELSE T("undefined")

\* lines 130-139: the parameters captured from entry 1
GenesisMeta(meta, e) ==
  LET p == e.parameters
      nkh == IF IsSome(p.nextKeyHashes) THEN p.nextKeyHashes[1] ELSE <<>>
  IN  [meta EXCEPT !.versionId = e.versionId, !.updated = e.versionTime,
                   !.created = e.versionTime, !.scid = p.scid,
                   !.portable = IF IsSome(p.portable) THEN p.portable[1] ELSE @,
                   !.updateKeys = p.updateKeys,
                   !.nextKeyHashes = nkh,
                   !.prerotation = Len(nkh) > 0,
                   !.witness = IF WTruthy(p.witness) THEN p.witness ELSE @]

\* lines 140-145: the entry with versionId and every occurrence of the scid
\* replaced by the placeholder
PlaceholderText(e) ==
  LET pat == ScidPattern(e.parameters.scid)
  IN  EntryText(PLACEHOLDER, TimeText(e.versionTime),
                ReplaceAll(ParamsText(e.parameters), pat, PLACEHOLDER),
                ReplaceAll(StateText(e.state), pat, PLACEHOLDER))

\* line 151: the placeholder text with the scid substituted back
PrelimText(e) == ReplaceAll(PlaceholderText(e), PLACEHOLDER, ScidPattern(e.parameters.scid))

\* line 153: the document handed to documentStateIsValid for entry 1
GenesisRestText(e) ==
  LET pat == ScidPattern(e.parameters.scid)
  IN  EntryText(T("1") \o T("-") \o deriveHash(PrelimText(e)), TimeText(e.versionTime),
                ReplaceAll(ReplaceAll(ParamsText(e.parameters), pat, PLACEHOLDER), PLACEHOLDER, pat),
                ReplaceAll(ReplaceAll(StateText(e.state), pat, PLACEHOLDER), PLACEHOLDER, pat))

\* lines 146-156: the gates of entry 1; "" when all pass, else the error thrown
GenesisGates(meta, e, options, remote) ==
  IF ~IsSome(meta.scid) \/ ~scidIsFromHash(meta.scid[1], deriveHash(PlaceholderText(e)))
  THEN "SCID not derived from logEntryHash"
  ELSE documentStateIsValid(GenesisRestText(e), e.proof, meta.updateKeys, meta.witness,
                            FALSE, options.verifier, remote)

\* variant: the version-number check is skipped
VersionNumberMatches_Skipped(version, i) == TRUE

\* variant: the portability gate looks at the wrong flag
PortabilityViolated_Inverted(meta, host, newHost) == meta.portable /\ newHost # host

\* line 120: parseInt(version) === i + 1
VersionNumberMatches(version, i) == parseInt(version) = i + 1

\* line 160: a DID that is not portable has moved
PortabilityViolated(meta, host, newHost) == ~meta.portable /\ newHost # host

\* line 165: the keys the proofs of an entry n>1 are authorized against
AuthorizationKeys(meta, e) ==
  IF meta.prerotation THEN e.parameters.updateKeys ELSE meta.updateKeys

\* variant: the proofs are verified before the portability gate
UpdateGates_ProofsFirst(meta, host, e, i, options, remote) ==
  LET newHost == SplitLast(e.state.id, ":")
      verified == documentStateIsValid(RestText(e), e.proof, AuthorizationKeys(meta, e),
                                       meta.witness, FALSE, options.verifier, remote)
  IN  IF verified # "" THEN verified
      ELSE IF PortabilityViolated(meta, host, newHost) THEN "Cannot move DID: portability is disabled"
      ELSE IF ~hashChainValid(NumText(i + 1) \o T("-") \o EntryHashOf(e.versionId), e.versionId)
      THEN "Hash chain broken"
      ELSE IF /\ meta.prerotation
              /\ ~newKeysAreInNextKeys(IF IsSome(e.parameters.updateKeys) THEN e.parameters.updateKeys[1] ELSE <<>>,
                                       meta.nextKeyHashes)
      THEN "Invalid update key. Not found in nextKeyHashes"
      ELSE ""

\* lines 159-180: the gates of an entry n>1, in order
UpdateGates(meta, host, e, i, options, remote) ==
  LET newHost == SplitLast(e.state.id, ":")
      verified == documentStateIsValid(RestText(e), e.proof, AuthorizationKeys(meta, e),
                                       meta.witness, FALSE, options.verifier, remote)
  IN  IF PortabilityViolated(meta, host, newHost) THEN "Cannot move DID: portability is disabled"
      ELSE IF verified # "" THEN verified
      ELSE IF ~hashChainValid(NumText(i + 1) \o T("-") \o EntryHashOf(e.versionId), e.versionId)
      THEN "Hash chain broken"
      ELSE IF /\ meta.prerotation
              /\ ~newKeysAreInNextKeys(IF IsSome(e.parameters.updateKeys) THEN e.parameters.updateKeys[1] ELSE <<>>,
                                       meta.nextKeyHashes)
      THEN "Invalid update key. Not found in nextKeyHashes"
      ELSE ""

\* variant: the witness of an entry n>1 is not taken over
UpdateMeta_WitnessKept(meta, e) ==
  LET p == e.parameters
  IN  [meta EXCEPT !.versionId = e.versionId, !.updated = e.versionTime,
                   !.updateKeys = IF IsSome(p.updateKeys) THEN p.updateKeys ELSE @,
                   !.deactivated = IF p.deactivated = Some(TRUE) THEN TRUE ELSE @,
                   !.nextKeyHashes = IF IsSome(p.nextKeyHashes) THEN p.nextKeyHashes[1] ELSE <<>>,
                   !.prerotation = IsSome(p.nextKeyHashes)]

\* variant: a later entry that declares portable changes it
UpdateMeta_PortableTaken(meta, e) ==
  LET p == e.parameters
  IN  [meta EXCEPT !.versionId = e.versionId, !.updated = e.versionTime,
                   !.portable = IF IsSome(p.portable) THEN p.portable[1] ELSE @,
                   !.updateKeys = IF IsSome(p.updateKeys) THEN p.updateKeys ELSE @,
                   !.deactivated = IF p.deactivated = Some(TRUE) THEN TRUE ELSE @,
                   !.nextKeyHashes = IF IsSome(p.nextKeyHashes) THEN p.nextKeyHashes[1] ELSE <<>>,
                   !.prerotation = IsSome(p.nextKeyHashes),
                   !.witness = IF p.witness.tag # "undefined" THEN p.witness
                               ELSE IF IsSome(p.witnesses)
                               THEN WValue(p.witnesses[1],
                                           IF p.witnessThreshold > 0 THEN p.witnessThreshold
                                           ELSE Len(p.witnesses[1]))
                               ELSE @]

\* lines 182-202: the parameter transitions of an entry n>1
UpdateMeta(meta, e) ==
  LET p == e.parameters
  IN  [meta EXCEPT !.versionId = e.versionId, !.updated = e.versionTime,
                   !.updateKeys = IF IsSome(p.updateKeys) THEN p.updateKeys ELSE @,
                   !.deactivated = IF p.deactivated = Some(TRUE) THEN TRUE ELSE @,
                   !.nextKeyHashes = IF IsSome(p.nextKeyHashes) THEN p.nextKeyHashes[1] ELSE <<>>,
                   !.prerotation = IsSome(p.nextKeyHashes),
                   !.witness = IF p.witness.tag # "undefined" THEN p.witness
                               ELSE IF IsSome(p.witnesses)
                               THEN WValue(p.witnesses[1],
                                           IF p.witnessThreshold > 0 THEN p.witnessThreshold
                                           ELSE Len(p.witnesses[1]))
                               ELSE @]

\* lines 204-226: the document of an entry with the default services added
HasService(services, id) == \E k \in 1..Len(services) : services[k].id = id

\* variant: no default service is added
WithDefaultServices_Skipped(state, baseUrl) ==
  [id |-> state.id, controller |-> state.controller,
   verificationMethod |-> state.verificationMethod,
   service |-> IF IsSome(state.service) THEN state.service[1] ELSE <<>>]

\* variant: the default services are added whether or not the state has them
WithDefaultServices_Always(state, baseUrl) ==
  [id |-> state.id, controller |-> state.controller,
   verificationMethod |-> state.verificationMethod,
   service |-> (IF IsSome(state.service) THEN state.service[1] ELSE <<>>)
               \o <<[id |-> T("#files"), serviceEndpoint |-> baseUrl],
                    [id |-> T("#whois"), serviceEndpoint |-> baseUrl \o T("/whois.vp")]>>]

WithDefaultServices(state, baseUrl) ==
  LET s0 == IF IsSome(state.service) THEN state.service[1] ELSE <<>>
      s1 == IF HasService(s0, T("#files")) THEN s0
            ELSE Append(s0, [id |-> T("#files"), serviceEndpoint |-> baseUrl])
      s2 == IF HasService(s1, T("#whois")) THEN s1
            ELSE Append(s1, [id |-> T("#whois"), serviceEndpoint |-> baseUrl \o T("/whois.vp")])
  IN  [id |-> state.id, controller |-> state.controller,
       verificationMethod |-> state.verificationMethod, service |-> s2]

EmptyDoc == [id |-> <<>>, controller |-> <<>>, verificationMethod |-> <<>>, service |-> <<>>]

\* the call threw: no partial result is returned
Threw(error, version) ==
  [status |-> "error", error |-> error, did |-> <<>>, doc |-> EmptyDoc,
   meta |-> InitialMeta, version |-> version]

\* return {did, doc, meta}; version is the number of the last entry processed
Returned(doc, meta, version) ==
  [status |-> "ok", error |-> "", did |-> doc.id, doc |-> doc, meta |-> meta,
   version |-> version]

NoOptions ==
  [versionNumber |-> 0, versionId |-> None, versionTime |-> 0, verificationMethod |-> None,
   verifier |-> TRUE, witnessProofs |-> None]

\* variant: a versionTime selector is not bounded by the time of the next entry
SelectorMatches_TimeUnbounded(log, i, doc, meta, options) ==
  \/ IsSome(options.verificationMethod) /\ findVerificationMethod(doc, options.verificationMethod[1])
  \/ options.versionNumber = parseInt(VersionOf(log[i + 1].versionId))
  \/ options.versionId = Some(meta.versionId)
  \/ options.versionTime # 0 /\ options.versionTime > meta.updated

\* lines 228-241: the selector of the options matches the entry at index i
SelectorMatches(log, i, doc, meta, options) ==
  \/ IsSome(options.verificationMethod) /\ findVerificationMethod(doc, options.verificationMethod[1])
  \/ options.versionNumber = parseInt(VersionOf(log[i + 1].versionId))
  \/ options.versionId = Some(meta.versionId)
  \/ /\ options.versionTime # 0 /\ options.versionTime > meta.updated
     /\ \/ i + 2 <= Len(log) /\ options.versionTime < log[i + 2].versionTime
        \/ i + 2 > Len(log)

\* lines 243-255: the witness gate on the last entry; "" when it passes
WitnessGate(log, i, meta, options, env) ==
  IF WTruthy(meta.witness) /\ i = Len(log) - 1
  THEN LET witnessProofs == IF IsSome(options.witnessProofs) THEN options.witnessProofs[1]
                            ELSE env.witnessFile
           validProofs == SelectSeq(witnessProofs, LAMBDA wp : wp.versionId = meta.versionId)
       IN  IF Len(validProofs) > 0
           THEN verifyWitnessProofs(log[i + 1].versionId, validProofs, meta.witness,
                                    options.verifier, env.remote)
           ELSE ""
  ELSE ""

\* lines 117-258: the loop from index i (0-based) on
RECURSIVE Replay(_, _, _, _, _, _, _)
Replay(log, i, meta, host, doc, options, env) ==
  IF i >= Len(log) THEN Returned(doc, meta, i)
  ELSE
    LET e         == log[i + 1]
        version   == VersionOf(e.versionId)
        isFirst   == version = T("1")
        captured  == GenesisMeta(meta, e)
        gates     == IF isFirst THEN GenesisGates(captured, e, options, env.remote)
                     ELSE UpdateGates(meta, host, e, i, options, env.remote)
        newMeta   == IF isFirst
                     THEN [captured EXCEPT !.previousLogEntryHash = deriveHash(PlaceholderText(e))]
                     ELSE UpdateMeta(meta, e)
        newHost   == SplitLast(e.state.id, ":")
        baseUrl   == getBaseUrl(e.state.id)
        newDoc    == WithDefaultServices(e.state, baseUrl[1])
        witnessed == WitnessGate(log, i, newMeta, options, env)
    IN
    IF ~VersionNumberMatches(version, i) THEN Threw("version in log doesn't match expected", i + 1)
    ELSE IF gates # "" THEN Threw(gates, i + 1)
    ELSE IF ~IsSome(baseUrl)
    THEN Threw(IF StartsWith(e.state.id, DidWebvhPrefix) /\ SplitCount(e.state.id, ":") >= 4
               THEN "URI malformed" ELSE "not a valid did:webvh identifier", i + 1)
    ELSE IF SelectorMatches(log, i, newDoc, newMeta, options) THEN Returned(newDoc, newMeta, i + 1)
    ELSE IF witnessed # "" THEN Threw(witnessed, i + 1)
    ELSE Replay(log, i + 1, newMeta, newHost, newDoc, options, env)

\* variant: the conflict of selectors is not checked
resolveDIDFromLog_NoConflictCheck(log, options, env) ==
  IF Len(log) = 0 THEN Threw("TypeError", 0)
  ELSE IF log[1].parameters.method # Some(PROTOCOL) THEN Threw("protocol unknown.", 0)
  ELSE Replay(log, 0, InitialMeta, <<>>, EmptyDoc, options, env)

\* resolveDIDFromLog(log, options)
resolveDIDFromLog(log, options, env) ==
  IF IsSome(options.verificationMethod) /\ (options.versionNumber # 0 \/ IsSome(options.versionId))
  THEN Threw("Cannot specify both verificationMethod and version number/id", 0)
  ELSE IF Len(log) = 0 THEN Threw("TypeError", 0)
  ELSE IF log[1].parameters.method # Some(PROTOCOL) THEN Threw("protocol unknown.", 0)
  ELSE Replay(log, 0, InitialMeta, <<>>, EmptyDoc, options, env)

(***************************************************************************)
(* Log entries as a controller (or an attacker) writes them.  The honest   *)
(* construction follows createDID (method.ts lines 16-47) and updateDID    *)
(* (lines 306-317); the dials say where an entry departs from it.          *)
(***************************************************************************)
K1 == T("z6Mk1")

K2 == T("z6Mk2")

K3 == T("z6Mk3")

W1 == T("z6MkW1")

W2 == T("z6MkW2")

W3 == T("z6MkW3")

Bogus == T("zQmBogus")

Domain == T("example.com")

OtherDomain == T("newdomain.com")

Parameters(method, scid, updateKeys, portable, nextKeyHashes, witness, deactivated) ==
  [method |-> method, scid |-> scid, updateKeys |-> updateKeys, portable |-> portable,
   nextKeyHashes |-> nextKeyHashes, witness |-> witness, witnesses |-> None,
   witnessThreshold |-> 0, deactivated |-> deactivated]

\* createDIDDoc: the document of a controller DID
State(did, verificationMethod, service) ==
  [id |-> did, controller |-> did, verificationMethod |-> verificationMethod, service |-> service]

\* signer.sign({document, proof}) with the proof options of lines 44-45
SignedProof(verificationMethod, key, dataText) ==
  LET options == [type |-> "DataIntegrityProof", cryptosuite |-> "eddsa-jcs-2022",
                  proofPurpose |-> "assertionMethod", verificationMethod |-> verificationMethod,
                  proofValue |-> Signature(<<>>, <<>>)]
  IN  [options EXCEPT !.proofValue = Signature(key, SigningInput(ProofText(options), dataText))]

\* a verification method id of an external did:webvh DID
ExternalVM == WebvhDID(T("zQmExternal"), T("other.example")) \o T("#") \o T("key-1")

\* a verification method id of an unsupported DID method
UnsupportedVM == Str(<<"did", ":", "web", ":", "example.com", "#", "key-1">>)

\* the proof a proof dial describes: who signs (key), under which verification
\* method id (did:key of the key, an external did:webvh method, or another
\* method), and over what (the entry, or something else)
ProofOf(dial, dataText) ==
  SignedProof(IF dial.vm = "did:key" THEN DidKeyVM(dial.key)
              ELSE IF dial.vm = "did:webvh" THEN ExternalVM ELSE UnsupportedVM,
              dial.key,
              IF dial.good THEN dataText ELSE T("something else"))

ProofsOf(dials, dataText) == [k \in 1..Len(dials) |-> ProofOf(dials[k], dataText)]

Dial(vm, key, good) == [vm |-> vm, key |-> key, good |-> good]

\* the first entry of a log.  d.scidOk: parameters.scid is the derived SCID;
\* d.hashOk: the stored versionId carries the derived entry hash; d.version:
\* the text before the dash of the versionId
FirstEntry(d) ==
  LET draftParams == Parameters(Some(PROTOCOL), Some(PLACEHOLDER), d.updateKeys, d.portable,
                                d.nextKeyHashes, d.witness, d.deactivated)
      draftState  == State(WebvhDID(PLACEHOLDER, d.domain), d.verificationMethod, d.service)
      draftText   == EntryText(PLACEHOLDER, TimeText(d.versionTime), ParamsText(draftParams),
                               StateText(draftState))
      derived     == createSCID(deriveHash(draftText))
      scid        == IF d.scidOk THEN derived ELSE Bogus
      params      == [draftParams EXCEPT !.scid = Some(scid)]
      state       == State(WebvhDID(scid, d.domain), d.verificationMethod, d.service)
      bare        == [versionId |-> PLACEHOLDER, versionTime |-> d.versionTime,
                      parameters |-> params, state |-> state, proof |-> <<>>]
      entryHash   == deriveHash(ReplaceAll(draftText, PLACEHOLDER, scid))
      versionId   == d.version \o T("-") \o (IF d.hashOk THEN entryHash ELSE Bogus)
      stored      == [bare EXCEPT !.versionId = versionId]
  IN  [stored EXCEPT !.proof = ProofsOf(d.proofs, IF d.signsStored THEN RestText(stored)
                                                  ELSE GenesisRestText(stored))]

\* a later entry of the log of the DID with this scid, whose parameters
\* declare the scid given (None: no scid, as updateDID writes it)
LaterEntryDeclaring(scid, d, declared) ==
  LET params    == Parameters(None, declared, d.updateKeys, d.portable, d.nextKeyHashes,
                              d.witness, d.deactivated)
      state     == State(WebvhDID(scid, d.domain), d.verificationMethod, d.service)
      logEntry  == EntryText(PLACEHOLDER, TimeText(d.versionTime), ParamsText(params), StateText(state))
      entryHash == deriveHash(logEntry)
      versionId == d.version \o T("-") \o (IF d.hashOk THEN entryHash ELSE Bogus)
      stored    == [versionId |-> versionId, versionTime |-> d.versionTime,
                    parameters |-> params, state |-> state, proof |-> <<>>]
  IN  [stored EXCEPT !.proof = ProofsOf(d.proofs, RestText(stored))]

\* a later entry of the log of the DID with this scid
LaterEntry(scid, d) == LaterEntryDeclaring(scid, d, None)

\* the dials of an entry written by the book, signed by key
Honest(n, key) ==
  [domain |-> Domain, versionTime |-> n, updateKeys |-> IF n = 1 THEN Some(<<K1>>) ELSE None,
   portable |-> None, nextKeyHashes |-> None, witness |-> WUndefined, deactivated |-> None,
   verificationMethod |-> <<>>, service |-> None,
   scidOk |-> TRUE, hashOk |-> TRUE, version |-> NumText(n), signsStored |-> TRUE,
   proofs |-> <<Dial("did:key", key, TRUE)>>]

EntryOf(log, d) ==
  IF Len(log) = 0 THEN FirstEntry(d)
  ELSE LaterEntry(ScidPattern(log[1].parameters.scid), d)

(***************************************************************************)
(* The state machine: a DID log published on the web grows entry by entry, *)
(* and a resolver replays it.                                              *)
(***************************************************************************)
VARIABLES
  log,      \* the published DID log (did.jsonl)
  env,      \* what the network answers: remote verification methods, did-witness.json
  options,  \* the options of the last resolveDIDFromLog call
  result,   \* what the last resolveDIDFromLog call on log returned or threw
  call      \* the last call of a mutator or of a function, with what it was given

vars == <<log, env, options, result, call>>

\* no mutator or function was called
NoCall ==
  [fn |-> "none", status |-> "none", error |-> "", did |-> <<>>, input |-> <<>>,
   witness |-> WUndefined, meta |-> InitialMeta, watchers |-> NoWatchers]

NoResult ==
  [status |-> "none", error |-> "", did |-> <<>>, doc |-> EmptyDoc, meta |-> InitialMeta,
   version |-> 0]

QuietEnv == [remote |-> RemoteThrows, witnessFile |-> <<>>]

\* every entry of the log passes its gates (the witness quorum aside)
Replays(l) ==
  resolveDIDFromLog(l, [NoOptions EXCEPT !.witnessProofs = Some(<<>>)], env).status = "ok"

\* an entry is appended to the published log.  Resolution stops at the first
\* entry that fails, so only a log that still replays is extended.
PublishEntry(e) ==
  /\ Len(log) < MaxLen
  /\ Len(log) > 0 => Replays(log)
  /\ log' = Append(log, e)
  /\ options' = NoOptions
  /\ result' = NoResult
  /\ UNCHANGED <<env, call>>

\* a resolver calls resolveDIDFromLog(log, o)
Resolve(o) ==
  /\ result.status = "none"
  /\ options' = o
  /\ result' = resolveDIDFromLog(log, o, env)
  /\ UNCHANGED <<log, env, call>>

(***************************************************************************)
(* Spec: logs whose entries vary in version number, stored hash, SCID,     *)
(* host, portability and deactivation; every entry is signed by the        *)
(* update key.                                                             *)
(***************************************************************************)
Versions(n) == {NumText(n), NumText(n + 1), <<L("0"), L(ToString(n))>>}

ChainDials(n) ==
  IF n = 1
  THEN {[Honest(1, K1) EXCEPT !.portable = pt, !.scidOk = so, !.hashOk = ho, !.version = v] :
          pt \in {None, Some(FALSE), Some(TRUE)}, so \in BOOLEAN, ho \in BOOLEAN, v \in Versions(1)}
  ELSE {[Honest(n, K1) EXCEPT !.domain = dm, !.hashOk = ho, !.version = v, !.deactivated = da] :
          dm \in {Domain, OtherDomain}, ho \in BOOLEAN, v \in Versions(n),
          da \in {None, Some(TRUE)}}

Init ==
  /\ log = <<>>
  /\ env = QuietEnv
  /\ options = NoOptions
  /\ result = NoResult
  /\ call = NoCall

Next ==
  \/ \E d \in ChainDials(Len(log) + 1) : PublishEntry(EntryOf(log, d))
  \/ Resolve([NoOptions EXCEPT !.witnessProofs = Some(<<>>)])

Spec == Init /\ [][Next]_vars

(***************************************************************************)
(* Properties.                                                             *)
(***************************************************************************)
NoSelector(o) ==
  /\ o.versionNumber = 0 /\ o.versionId = None /\ o.versionTime = 0
  /\ o.verificationMethod = None

Resolved == result.status # "none" /\ Len(log) > 0

Accepted == result.status = "ok"

\* the last colon segment of the id of the document of entry k
HostOf(k) == SplitLast(log[k].state.id, ":")

\* entry 1 as an object, with versionId set to the placeholder, the scid
\* replaced by the placeholder where it occurs, and the proof left out
Placeholderized(e) ==
  LET scid == ScidPattern(e.parameters.scid)
  IN  [e EXCEPT !.versionId = PLACEHOLDER,
                !.parameters.scid = Some(PLACEHOLDER),
                !.state.id = ReplaceAll(@, scid, PLACEHOLDER),
                !.state.controller = ReplaceAll(@, scid, PLACEHOLDER),
                !.proof = <<>>]

ScidIsDerived(e) == e.parameters.scid = Some(deriveHash(RestText(Placeholderized(e))))

\* C3: resolution fails unless the scid of entry 1 is the hash of entry 1 with
\* versionId and every occurrence of the scid replaced by the placeholder; when
\* entry 1 is numbered "1" and its scid is not that hash, the call throws the
\* SCID error at entry 1.
C3_ScidDerivedFromFirstEntry ==
  Resolved =>
    /\ Accepted => ScidIsDerived(log[1])
    /\ (VersionOf(log[1].versionId) = T("1") /\ ~ScidIsDerived(log[1])) =>
         (result.error = "SCID not derived from logEntryHash" /\ result.version = 1)

C3_Witness == Accepted /\ Len(log) >= 2 /\ ScidIsDerived(log[1])

\* the hash of an entry recomputed from its own content
RecomputedHash(e) ==
  deriveHash(EntryText(PLACEHOLDER, TimeText(e.versionTime), ParamsText(e.parameters),
                       StateText(e.state)))

\* C4: every entry n>1 of an accepted log has versionId "<n>-<hash recomputed
\* from its versionTime, parameters and state>".
C4_VersionIdIsRecomputedHash ==
  Accepted =>
    \A n \in 2..Len(log) : log[n].versionId = NumText(n) \o T("-") \o RecomputedHash(log[n])

\* C7: once a prefix of the log resolves as deactivated, the log with any
\* further entry fails to resolve.
C7_DeactivationIsTerminal ==
  Resolved =>
    \A k \in 1..(Len(log) - 1) :
      LET r == resolveDIDFromLog(SubSeq(log, 1, k), options, env)
      IN  (r.status = "ok" /\ r.meta.deactivated) => result.status = "error"

\* C9: when entry 1 did not set portable to true, the first entry k>1 whose
\* host differs from that of entry 1 makes the call throw the portability
\* error (its version number being right), and in an accepted log every entry
\* has the host of entry 1.
C9_NonPortableHostIsFixed ==
  (Resolved /\ NoSelector(options) /\ log[1].parameters.portable # Some(TRUE)) =>
    /\ Accepted => \A k \in 1..Len(log) : HostOf(k) = HostOf(1)
    /\ \A k \in 2..Len(log) :
         ( /\ HostOf(k) # HostOf(1)
           /\ \A j \in 1..(k - 1) : HostOf(j) = HostOf(1)
           /\ VersionOf(log[k].versionId) = NumText(k)
           /\ Replays(SubSeq(log, 1, k - 1)) )
         => (result.error = "Cannot move DID: portability is disabled" /\ result.version = k)

C9_Witness ==
  /\ Resolved /\ Len(log) = 3 /\ log[1].parameters.portable = Some(FALSE)
  /\ HostOf(2) = HostOf(1) /\ HostOf(3) # HostOf(1)
  /\ result.error = "Cannot move DID: portability is disabled"

\* C10: in a log accepted without selector the versionId prefixes are exactly
\* 1, 2, ..., n; an entry whose prefix is another number makes the call throw
\* the version error at that entry at the latest, and any other departure of
\* the prefix from the entry's number makes it fail there at the latest.
C10_VersionNumbersAreSequential ==
  (Resolved /\ NoSelector(options)) =>
    /\ Accepted => \A n \in 1..Len(log) : VersionOf(log[n].versionId) = NumText(n)
    /\ \A n \in 1..Len(log) :
         VersionOf(log[n].versionId) # NumText(n) => (result.status = "error" /\ result.version <= n)
    /\ \A n \in 1..Len(log) :
         ( /\ \E m \in 1..MaxVersion : m # n /\ VersionOf(log[n].versionId) = NumText(m)
           /\ \A j \in 1..(n - 1) : VersionOf(log[j].versionId) = NumText(j)
           /\ n > 1 => Replays(SubSeq(log, 1, n - 1)) )
         => (result.error = "version in log doesn't match expected" /\ result.version = n)

C10_Witness ==
  /\ Resolved /\ Len(log) = 3 /\ VersionOf(log[3].versionId) = NumText(4)
  /\ result.error = "version in log doesn't match expected"

(***************************************************************************)
(* SpecRotate: logs whose entries vary in updateKeys, nextKeyHashes and    *)
(* the key that signs.                                                     *)
(***************************************************************************)
NextKeyHashChoices == {None, Some(<<>>), Some(<<deriveNextKeyHash(K2)>>)}

RotateDials(n) ==
  IF n = 1
  THEN {[Honest(1, k) EXCEPT !.nextKeyHashes = nk] : k \in {K1, K2}, nk \in NextKeyHashChoices}
  ELSE {[Honest(n, k) EXCEPT !.updateKeys = uk, !.nextKeyHashes = nk] :
          k \in {K1, K2}, uk \in {None, Some(<<K1>>), Some(<<K2>>)}, nk \in NextKeyHashChoices}

NextRotate ==
  \/ \E d \in RotateDials(Len(log) + 1) : PublishEntry(EntryOf(log, d))
  \/ Resolve([NoOptions EXCEPT !.witnessProofs = Some(<<>>)])

SpecRotate == Init /\ [][NextRotate]_vars

(***************************************************************************)
(* SpecProof: logs whose entries vary in their proof lists; entry 1 may    *)
(* declare a witness; the external did:webvh verification method resolves  *)
(* or not.                                                                 *)
(***************************************************************************)
ProofChoices ==
  { <<>>,
    <<Dial("did:key", K1, TRUE)>>,
    <<Dial("did:key", K2, TRUE)>>,
    <<Dial("did:key", K1, FALSE)>>,
    <<Dial("did:webvh", K3, TRUE)>>,
    <<Dial("did:web", K1, TRUE)>>,
    <<Dial("did:key", K1, TRUE), Dial("did:key", K2, TRUE)>>,
    <<Dial("did:key", K1, TRUE), Dial("did:key", K1, FALSE)>> }

WitnessId(k) == [id |-> DidKeyPrefix \o k]

ProofDials(n) ==
  IF n = 1
  THEN {[Honest(1, K1) EXCEPT !.proofs = ps, !.witness = w] :
          ps \in ProofChoices, w \in {WUndefined, WValue(<<WitnessId(W1)>>, 1)}}
  ELSE {[Honest(n, K1) EXCEPT !.proofs = ps] : ps \in ProofChoices}

InitProof ==
  /\ log = <<>>
  /\ env \in {[remote |-> r, witnessFile |-> <<>>] : r \in {RemoteThrows, RemoteNotFound, RemoteKey(K3)}}
  /\ options = NoOptions
  /\ result = NoResult
  /\ call = NoCall

NextProof ==
  \/ \E d \in ProofDials(Len(log) + 1) : PublishEntry(EntryOf(log, d))
  \/ Resolve([NoOptions EXCEPT !.witnessProofs = Some(<<>>)])

SpecProof == InitProof /\ [][NextProof]_vars

(***************************************************************************)
(* Properties of proofs and of key rotation.  The update keys the          *)
(* specification of the method puts in force are computed from the log     *)
(* alone, independently of the resolver.                                   *)
(***************************************************************************)
\* the updateKeys in force after entry n: those of the last entry that set them
RECURSIVE RunningUpdateKeys(_, _)
RunningUpdateKeys(l, n) ==
  IF n = 0 THEN <<>>
  ELSE IF IsSome(l[n].parameters.updateKeys) THEN l[n].parameters.updateKeys[1]
  ELSE RunningUpdateKeys(l, n - 1)

\* entry n declared a non-empty nextKeyHashes
DeclaredPrerotation(l, n) ==
  IsSome(l[n].parameters.nextKeyHashes) /\ Len(l[n].parameters.nextKeyHashes[1]) > 0

OwnUpdateKeys(e) == IF IsSome(e.parameters.updateKeys) THEN e.parameters.updateKeys[1] ELSE <<>>

\* the keys that may sign entry n
ApplicableUpdateKeys(l, n) ==
  IF n = 1 \/ DeclaredPrerotation(l, n - 1) THEN OwnUpdateKeys(l[n])
  ELSE RunningUpdateKeys(l, n - 1)

\* the verification method is the did:key of one of the keys, fragment ignored
SignerIsUpdateKey(verificationMethod, keys) ==
  /\ StartsWith(verificationMethod, DidKeyPrefix)
  /\ \E j \in 1..Len(keys) :
       SplitFirst(SubSeq(verificationMethod, Len(DidKeyPrefix) + 1, Len(verificationMethod)), "#")
         = UpdateKeyPart(keys[j])

C2_EmptyProofListIsRejected ==
  Accepted => \A n \in 1..Len(log) : Len(log[n].proof) > 0

\* C5: the keys the resolver authorizes the proofs of an entry n>1 against are
\* the entry's own updateKeys exactly when entry n-1 declared a non-empty
\* nextKeyHashes, and the running updateKeys otherwise; so in an accepted log
\* every proof of such an entry is by one of those keys.
C5_AuthorizationKeySet ==
  \A n \in 2..Len(log) :
    LET r == resolveDIDFromLog(SubSeq(log, 1, n - 1), [NoOptions EXCEPT !.witnessProofs = Some(<<>>)], env)
    IN  /\ r.status = "ok" =>
             AuthorizationKeys(r.meta, log[n]) =
               (IF DeclaredPrerotation(log, n - 1) THEN log[n].parameters.updateKeys
                ELSE Some(RunningUpdateKeys(log, n - 1)))
        /\ Accepted => \A k \in 1..Len(log[n].proof) :
             SignerIsUpdateKey(log[n].proof[k].verificationMethod, ApplicableUpdateKeys(log, n))

\* C6: in an accepted log, when entry k-1 declared a non-empty nextKeyHashes H,
\* every key of the updateKeys of entry k hashes to a member of H; a log with
\* such a key outside H fails to resolve.
C6_NewKeysAreCommitted ==
  (Resolved /\ Accepted) =>
    \A k \in 2..Len(log) :
      DeclaredPrerotation(log, k - 1) =>
        \A j \in 1..Len(OwnUpdateKeys(log[k])) :
          \E h \in 1..Len(log[k - 1].parameters.nextKeyHashes[1]) :
            log[k - 1].parameters.nextKeyHashes[1][h] = deriveNextKeyHash(OwnUpdateKeys(log[k])[j])

C6_Witness ==
  /\ Resolved /\ Accepted /\ Len(log) >= 2 /\ DeclaredPrerotation(log, 1)
  /\ log[2].parameters.updateKeys = Some(<<K2>>)

(***************************************************************************)
(* SpecWitness: logs written by the book whose first entry may declare     *)
(* witnesses; the resolver is handed witness proof files of all kinds.     *)
(***************************************************************************)
\* createWitnessProof(signer, versionId) (src/src/utils/witness.ts): the
\* signer of the witness signs {versionId}
createWitnessProof(key, versionId) == SignedProof(DidKeyVM(key), key, WitnessDataText(versionId))

\* a proof under the verification method of a witness, made by another key
ForgedWitnessProof(key, signer, versionId) ==
  SignedProof(DidKeyVM(key), signer, WitnessDataText(versionId))

\* one entry of did-witness.json
ProofSet(versionId, proofs) == [versionId |-> versionId, proof |-> proofs]

WitnessChoices ==
  {WUndefined, WValue(<<WitnessId(W1), WitnessId(W2)>>, 1), WValue(<<WitnessId(W1), WitnessId(W2)>>, 2),
   WValue(<<WitnessId(W1), WitnessId(W2), WitnessId(W3)>>, 2)}

WitnessDials(n) ==
  IF n = 1 THEN {[Honest(1, K1) EXCEPT !.witness = w] : w \in WitnessChoices}
  ELSE {Honest(n, K1)}

\* the witness proof files a resolver may be handed for a log whose last
\* entry has versionId vid; stale is another versionId
WitnessFiles(vid, stale) ==
  LET p(k) == createWitnessProof(k, vid)
  IN  { <<>>,
        <<ProofSet(vid, <<p(W1)>>)>>,
        <<ProofSet(vid, <<p(W2)>>)>>,
        <<ProofSet(vid, <<p(W1), p(W2)>>)>>,
        <<ProofSet(vid, <<p(W1)>>), ProofSet(vid, <<p(W3)>>)>>,
        <<ProofSet(vid, <<p(W1), p(W1)>>)>>,
        <<ProofSet(vid, <<p(W1), p(W2), p(W3)>>)>>,
        <<ProofSet(vid, <<p(W1), ForgedWitnessProof(W2, K3, vid)>>)>>,
        <<ProofSet(vid, <<p(W1), p(W2), p(K3)>>)>>,
        <<ProofSet(vid, <<p(W1), p(W2), ForgedWitnessProof(W1, K3, vid)>>)>>,
        <<ProofSet(vid, <<createWitnessProof(W1, stale), createWitnessProof(W2, stale)>>)>>,
        <<ProofSet(stale, <<createWitnessProof(W1, stale), createWitnessProof(W2, stale)>>)>>,
        <<ProofSet(stale, <<p(W1), p(W2)>>), ProofSet(vid, <<p(W2)>>)>> }

WitnessOptions(l) ==
  LET vid   == l[Len(l)].versionId
      stale == IF Len(l) > 1 THEN l[Len(l) - 1].versionId ELSE T("1") \o T("-") \o Bogus
  IN  {NoOptions} \cup {[NoOptions EXCEPT !.witnessProofs = Some(f)] : f \in WitnessFiles(vid, stale)}

NextWitness ==
  \/ \E d \in WitnessDials(Len(log) + 1) : PublishEntry(EntryOf(log, d))
  \/ Len(log) > 0 /\ \E o \in WitnessOptions(log) : Resolve(o)

SpecWitness == Init /\ [][NextWitness]_vars

\* the witness proofs the call was given: those of the options, else the
\* fetched file
SuppliedWitnessProofs ==
  IF IsSome(options.witnessProofs) THEN options.witnessProofs[1] ELSE env.witnessFile

\* the proof is a verifying proof of the witness w over the versionId
IsVerifyingProofOf(proof, w, versionId) ==
  /\ StartsWith(proof.verificationMethod, w.id)
  /\ proof.cryptosuite = "eddsa-jcs-2022"
  /\ VerifierVerify(proof.proofValue, SigningInput(ProofText(proof), WitnessDataText(versionId)),
                    SubSeq(w.id, Len(DidKeyPrefix) + 1, Len(w.id)))

\* the declared witnesses with a verifying proof for the versionId of the
\* final entry among the supplied proofs
VerifyingWitnesses ==
  LET w   == log[1].parameters.witness.witnesses
      vid == log[Len(log)].versionId
  IN  {i \in 1..Len(w) :
         \E s \in 1..Len(SuppliedWitnessProofs) :
           /\ SuppliedWitnessProofs[s].versionId = vid
           /\ \E k \in 1..Len(SuppliedWitnessProofs[s].proof) :
                IsVerifyingProofOf(SuppliedWitnessProofs[s].proof[k], w[i], vid)}

\* C8: with a witness parameter of threshold T active at the final entry, a
\* call without selector succeeds when the supplied proofs for the final
\* versionId include verifying proofs of T distinct declared witnesses, and
\* fails when fewer than T declared witnesses have one, also when no supplied
\* proof set matches the versionId.
C8_WitnessQuorum ==
  (Resolved /\ NoSelector(options) /\ WTruthy(log[1].parameters.witness)) =>
    /\ Cardinality(VerifyingWitnesses) >= log[1].parameters.witness.threshold => Accepted
    /\ Cardinality(VerifyingWitnesses) < log[1].parameters.witness.threshold => result.status = "error"

(***************************************************************************)
(* SpecSelect: logs written by the book whose documents vary in their      *)
(* verification methods and services and whose first entry may declare     *)
(* witnesses; a later entry may be signed by a key that is no update key;  *)
(* the resolver is called with every kind of selector.                     *)
(***************************************************************************)
VmA == T("#key-A")

VmB == T("#key-B")

OwnFiles == [id |-> T("#files"), serviceEndpoint |-> T("https://files.example")]

SelectDials(n) ==
  IF n = 1
  THEN {[Honest(1, K1) EXCEPT !.verificationMethod = vm, !.witness = w] :
          vm \in {<<>>, <<VmA>>, <<VmA, VmB>>},
          w \in {WUndefined, WValue(<<WitnessId(W1), WitnessId(W2)>>, 2)}}
       \cup {[Honest(1, K1) EXCEPT !.service = Some(<<OwnFiles>>)]}
  ELSE {[Honest(n, K1) EXCEPT !.verificationMethod = vm] : vm \in {<<>>, <<VmA>>, <<VmA, VmB>>}}
       \cup {[Honest(n, K2) EXCEPT !.verificationMethod = <<VmA, VmB>>]}

\* did-witness.json with, for each entry, the proof of W1 and, for the entries
\* from index from on, that of W2 too
WitnessFileFrom(l, from) ==
  [k \in 1..Len(l) |->
     ProofSet(l[k].versionId,
              IF k >= from
              THEN <<createWitnessProof(W1, l[k].versionId), createWitnessProof(W2, l[k].versionId)>>
              ELSE <<createWitnessProof(W1, l[k].versionId)>>)]

SelectOptions(l) ==
  LET plain == {NoOptions} \cup {[NoOptions EXCEPT !.versionNumber = k] : k \in 1..Len(l)}
  IN  plain
      \cup (IF WTruthy(l[1].parameters.witness)
            THEN {[o EXCEPT !.witnessProofs = Some(WitnessFileFrom(l, from))] :
                    o \in plain, from \in {Len(l), Len(l) + 1}}
            ELSE {})
      \cup {[NoOptions EXCEPT !.versionId = Some(l[k].versionId)] : k \in 1..Len(l)}
      \cup {[NoOptions EXCEPT !.verificationMethod = Some(m)] : m \in {VmA, VmB}}
      \cup {[NoOptions EXCEPT !.verificationMethod = Some(VmA), !.versionNumber = 1],
            [NoOptions EXCEPT !.verificationMethod = Some(VmB), !.versionId = Some(l[1].versionId)],
            [NoOptions EXCEPT !.verificationMethod = Some(VmB), !.versionId = Some(Bogus),
                              !.versionNumber = Len(l)]}

NextSelect ==
  \/ \E d \in SelectDials(Len(log) + 1) : PublishEntry(EntryOf(log, d))
  \/ Len(log) > 0 /\ \E o \in SelectOptions(log) : Resolve(o)

SpecSelect == Init /\ [][NextSelect]_vars

\* the services of a document that resolution adds by default
IsDefaultService(sv, id) ==
  \/ sv.id = T("#files") /\ getBaseUrl(id) = Some(sv.serviceEndpoint)
  \/ sv.id = T("#whois") /\ getBaseUrl(id) = Some(SubSeq(sv.serviceEndpoint, 1, Len(sv.serviceEndpoint) - 1))
                         /\ sv.serviceEndpoint[Len(sv.serviceEndpoint)] = L("/whois.vp")

\* doc is the state with, appended, the default services it lacks
IsStateWithDefaultServices(doc, state) ==
  LET own == IF IsSome(state.service) THEN state.service[1] ELSE <<>>
  IN  /\ doc.id = state.id /\ doc.controller = state.controller
      /\ doc.verificationMethod = state.verificationMethod
      /\ Len(doc.service) >= Len(own) /\ SubSeq(doc.service, 1, Len(own)) = own
      /\ \A k \in (Len(own) + 1)..Len(doc.service) :
           /\ IsDefaultService(doc.service[k], state.id)
           /\ \A j \in 1..Len(own) : own[j].id # doc.service[k].id
      /\ \A id \in {T("#files"), T("#whois")} : \E k \in 1..Len(doc.service) : doc.service[k].id = id

\* C11: a call without selector that succeeds returns the versionId of the
\* last entry of the log as meta.versionId and, as document, the state of that
\* entry with the default services added.
C11_ReturnsLastEntry ==
  (Accepted /\ NoSelector(options)) =>
    /\ result.meta.versionId = log[Len(log)].versionId
    /\ result.did = log[Len(log)].state.id
    /\ IsStateWithDefaultServices(result.doc, log[Len(log)].state)

C11_Witness ==
  /\ Accepted /\ NoSelector(options) /\ Len(log) = MaxLen
  /\ log[MaxLen].state.verificationMethod = <<VmA, VmB>>
  /\ result.meta.versionId = log[MaxLen].versionId

\* C12: for a log that resolves without selector, the call with
\* versionNumber = k and the call without selector on the first k entries have
\* the same outcome and, when they succeed, return the same meta and the same
\* document.
C12_PrefixEquivalence ==
  ( /\ Resolved /\ options.versionNumber \in 1..Len(log)
    /\ options.versionId = None /\ options.versionTime = 0 /\ options.verificationMethod = None
    /\ resolveDIDFromLog(log, [options EXCEPT !.versionNumber = 0], env).status = "ok" )
  => LET prefix == resolveDIDFromLog(SubSeq(log, 1, options.versionNumber),
                                     [options EXCEPT !.versionNumber = 0], env)
     IN  /\ prefix.status = result.status
         /\ result.status = "ok" => (prefix.meta = result.meta /\ prefix.doc = result.doc)

(***************************************************************************)
(* SpecHistory: logs written by the book whose entries vary in their       *)
(* versionTime and in the deactivated parameter; the resolver is asked for *)
(* the DID at a time or at a version.                                      *)
(***************************************************************************)
\* the time of entry n: later than that of every entry before it, or the time
\* of entry 1 again
TimeChoices(n) == {2 * n, 2}

MaxTime == 2 * MaxLen + 1

HistoryDials(n) ==
  {[Honest(n, K1) EXCEPT !.versionTime = t, !.deactivated = da] :
     t \in TimeChoices(n), da \in {None, Some(FALSE), Some(TRUE)}}

HistoryOptions ==
  {NoOptions} \cup {[NoOptions EXCEPT !.versionTime = t] : t \in 1..MaxTime}
              \cup {[NoOptions EXCEPT !.versionNumber = k] : k \in 1..MaxLen}

NextHistory ==
  \/ \E d \in HistoryDials(Len(log) + 1) : PublishEntry(EntryOf(log, d))
  \/ Len(log) > 0 /\ \E o \in HistoryOptions : Resolve(o)

SpecHistory == Init /\ [][NextHistory]_vars

\* C16: a successful call returns meta.deactivated = true if and only if some
\* entry up to the returned one, entry 1 included, carries deactivated = true.
C16_DeactivatedIffDeclared ==
  Accepted =>
    (result.meta.deactivated <=>
       \E n \in 1..result.version : log[n].parameters.deactivated = Some(TRUE))

\* C18: in a log with strictly increasing versionTime, a call with a
\* versionTime strictly between the times of entries k and k+1, or strictly
\* after that of the last entry k, returns entry k.
C18_ResolvesAtTime ==
  ( /\ Resolved /\ options.versionTime # 0 /\ options.versionNumber = 0
    /\ options.versionId = None /\ options.verificationMethod = None
    /\ \A n \in 1..(Len(log) - 1) : log[n].versionTime < log[n + 1].versionTime )
  => \A k \in 1..Len(log) :
       ( /\ log[k].versionTime < options.versionTime
         /\ k < Len(log) => options.versionTime < log[k + 1].versionTime )
       => /\ Accepted /\ result.version = k
          /\ result.meta.versionId = log[k].versionId
          /\ VersionOf(result.meta.versionId) = NumText(k)
          /\ result.did = log[k].state.id

C18_Witness ==
  /\ Accepted /\ Len(log) = MaxLen /\ options.versionTime = 5 /\ result.version = 2
  /\ \A n \in 1..(Len(log) - 1) : log[n].versionTime < log[n + 1].versionTime

\* the options name a verificationMethod together with a versionNumber or a
\* versionId
SelectorsConflict(o) ==
  IsSome(o.verificationMethod) /\ (o.versionNumber # 0 \/ IsSome(o.versionId))

\* C17: a call whose options name a verificationMethod together with a
\* versionNumber or a versionId throws the conflict error before any entry of
\* the log is processed.
C17_ConflictingSelectorsRejected ==
  (Resolved /\ SelectorsConflict(options)) =>
    /\ result.status = "error" /\ result.version = 0
    /\ result.error = "Cannot specify both verificationMethod and version number/id"

C17_Witness ==
  /\ Resolved /\ SelectorsConflict(options) /\ IsSome(options.versionId) /\ Len(log) = MaxLen
  /\ result.status = "error"

\* the document of entry k contains a verification method with id m
DocHasMethod(k, m) ==
  \E j \in 1..Len(log[k].state.verificationMethod) : log[k].state.verificationMethod[j] = m

\* C19: a call with only a verificationMethod selector m returns the earliest
\* entry whose document contains a verification method with id m, with the
\* meta accumulated up to that entry; later entries are not processed, so the
\* result does not depend on them (the entries up to the returned one pass
\* their gates, the later ones need not).
C19_EarliestEntryWithMethod ==
  ( /\ Resolved /\ IsSome(options.verificationMethod) /\ ~SelectorsConflict(options)
    /\ options.versionTime = 0 )
  => \A k \in 1..Len(log) :
       (/\ DocHasMethod(k, options.verificationMethod[1])
        /\ \A j \in 1..(k - 1) : ~DocHasMethod(j, options.verificationMethod[1])
        /\ Replays(SubSeq(log, 1, k)))
       => /\ Accepted /\ result.version = k
          /\ result.meta = resolveDIDFromLog(SubSeq(log, 1, k),
                                             [NoOptions EXCEPT !.witnessProofs = Some(<<>>)], env).meta
          /\ IsStateWithDefaultServices(result.doc, log[k].state)

C19_Witness ==
  /\ Accepted /\ options.verificationMethod = Some(VmB) /\ Len(log) = MaxLen
  /\ result.version = 2 /\ ~DocHasMethod(1, VmB)
  /\ ~Replays(log)

(***************************************************************************)
(* The mutators createDID, updateDID and deactivateDID (src/src/method.ts, *)
(* lines 7-73, 263-347 and 349-403).  A call returns the extended log or   *)
(* throws.                                                                 *)
(***************************************************************************)
\* the mutator threw
Failed(error) ==
  [status |-> "error", error |-> error, did |-> <<>>, log |-> <<>>, meta |-> InitialMeta]

\* return {did, doc, meta, log}
Done(did, l, meta) == [status |-> "ok", error |-> "", did |-> did, log |-> l, meta |-> meta]

\* createDID(options), lines 7-73
createDID(o, remote) ==
  IF ~IsSome(o.updateKeys) THEN Failed("Update keys not supplied")
  ELSE IF /\ WTruthy(o.witness) /\ Len(o.witness.witnesses) > 0
          /\ validateWitnessParameter(o.witness) # ""
  THEN Failed(validateWitnessParameter(o.witness))
  ELSE
    LET prelimEntry ==
          FirstEntry([domain |-> o.domain, versionTime |-> o.created,
                      updateKeys |-> o.updateKeys,
                      portable |-> IF IsSome(o.portable) THEN o.portable ELSE Some(FALSE),
                      nextKeyHashes |-> IF IsSome(o.nextKeyHashes) THEN o.nextKeyHashes ELSE Some(<<>>),
                      witness |-> IF WTruthy(o.witness) THEN o.witness ELSE WUndefined,
                      deactivated |-> Some(FALSE),
                      verificationMethod |-> <<>>, service |-> None,
                      scidOk |-> TRUE, hashOk |-> TRUE, version |-> T("1"), signsStored |-> TRUE,
                      proofs |-> <<Dial("did:key", o.signer, TRUE)>>])
        verified == documentStateIsValid(RestText(prelimEntry), prelimEntry.proof,
                                         prelimEntry.parameters.updateKeys,
                                         prelimEntry.parameters.witness, TRUE, o.verifier, remote)
    IN  IF verified # "" THEN Failed(verified)
        ELSE Done(prelimEntry.state.id, <<prelimEntry>>,
                  [InitialMeta EXCEPT
                     !.versionId = prelimEntry.versionId, !.created = prelimEntry.versionTime,
                     !.updated = prelimEntry.versionTime,
                     !.prerotation = Len(prelimEntry.parameters.nextKeyHashes[1]) > 0,
                     !.scid = prelimEntry.parameters.scid,
                     !.updateKeys = prelimEntry.parameters.updateKeys,
                     !.portable = prelimEntry.parameters.portable[1],
                     !.nextKeyHashes = prelimEntry.parameters.nextKeyHashes[1],
                     !.witness = prelimEntry.parameters.witness,
                     !.deactivated = FALSE])

\* lines 299-317 and 362-373: the entry of a mutator, hashed with the
\* placeholder as versionId and signed by the signer of the options
MutatorEntry(versionNumber, versionTime, params, state, signer) ==
  LET logEntryHash == deriveHash(EntryText(PLACEHOLDER, TimeText(versionTime), ParamsText(params),
                                           StateText(state)))
      prelimEntry  == [versionId |-> NumText(versionNumber) \o T("-") \o logEntryHash,
                       versionTime |-> versionTime, parameters |-> params, state |-> state,
                       proof |-> <<>>]
  IN  [prelimEntry EXCEPT !.proof = <<SignedProof(DidKeyVM(signer), signer, RestText(prelimEntry))>>]

\* variant: the new entry takes the place of the last entry of the log
Extended_Overwrites(l, lastMeta, prelimEntry, meta, verifier, remote) ==
  LET verified == documentStateIsValid(RestText(prelimEntry), prelimEntry.proof,
                                       lastMeta.updateKeys, lastMeta.witness, TRUE,
                                       verifier, remote)
  IN  IF verified # "" THEN Failed(verified)
      ELSE Done(prelimEntry.state.id, [l EXCEPT ![Len(l)] = prelimEntry],
                [meta EXCEPT !.versionId = prelimEntry.versionId,
                             !.updated = prelimEntry.versionTime])

\* lines 319-346 and 375-402: the mutator checks its entry against the update
\* keys and the witness of the replayed log, and returns the extended log
Extended(l, lastMeta, prelimEntry, meta, verifier, remote) ==
  LET verified == documentStateIsValid(RestText(prelimEntry), prelimEntry.proof,
                                       lastMeta.updateKeys, lastMeta.witness, TRUE,
                                       verifier, remote)
  IN  IF verified # "" THEN Failed(verified)
      ELSE Done(prelimEntry.state.id, Append(l, prelimEntry),
                [meta EXCEPT !.versionId = prelimEntry.versionId,
                             !.updated = prelimEntry.versionTime])

\* updateDID(options), lines 263-347, with l the log of the options
updateDID(l, o, net) ==
  LET lastEntry == l[Len(l)]
      last   == resolveDIDFromLog(l, [NoOptions EXCEPT !.verifier = o.verifier], net)
      base   == Parameters(None, None,
                           IF IsSome(o.updateKeys) THEN o.updateKeys ELSE Some(<<>>), None,
                           IF IsSome(o.nextKeyHashes) THEN o.nextKeyHashes ELSE Some(<<>>),
                           IF o.witness.tag = "null" THEN WNull ELSE WUndefined, None)
      params == IF o.witness.tag = "value"
                THEN [base EXCEPT !.witnesses = Some(o.witness.witnesses),
                                  !.witnessThreshold = o.witness.threshold]
                ELSE base
      doc    == State(lastEntry.state.id, <<>>, None)
  IN  IF last.status # "ok" THEN Failed(last.error)
      ELSE IF last.meta.deactivated THEN Failed("Cannot update deactivated DID")
      ELSE Extended(l, last.meta, MutatorEntry(Len(l) + 1, o.updated, params, doc, o.signer),
                    [last.meta EXCEPT !.prerotation = Len(params.nextKeyHashes[1]) > 0,
                                      !.updateKeys = params.updateKeys,
                                      !.nextKeyHashes = params.nextKeyHashes[1],
                                      !.witness = IF o.witness.tag = "null" THEN WNull ELSE @],
                    o.verifier, net.remote)

\* deactivateDID(options), lines 349-403, with l the log of the options
deactivateDID(l, o, net) ==
  LET lastEntry == l[Len(l)]
      last   == resolveDIDFromLog(l, [NoOptions EXCEPT !.verifier = o.verifier], net)
      params == Parameters(None, None,
                           IF IsSome(o.updateKeys) THEN o.updateKeys ELSE last.meta.updateKeys,
                           None, None, WUndefined, Some(TRUE))
  IN  IF last.status # "ok" THEN Failed(last.error)
      ELSE IF last.meta.deactivated THEN Failed("DID already deactivated")
      ELSE Extended(l, last.meta,
                    MutatorEntry(Len(l) + 1, o.updated, params, lastEntry.state, o.signer),
                    [last.meta EXCEPT !.deactivated = TRUE, !.updateKeys = params.updateKeys],
                    o.verifier, net.remote)

(***************************************************************************)
(* SpecMutate: a controller builds the log with the mutators, signing with *)
(* one of two keys, and a resolver replays what they returned.             *)
(***************************************************************************)
\* a host name with a percent sign that starts no escape
BadDomain == T("%")

NextKeys == <<deriveNextKeyHash(K2)>>

WatcherUrl == T("https://watcher.example.com")

CreateOptions ==
  {[domain |-> dm, created |-> 1, updateKeys |-> uk, portable |-> None, nextKeyHashes |-> nk,
    witness |-> w, watchers |-> NoWatchers, signer |-> sg, verifier |-> TRUE] :
     dm \in {Domain, BadDomain}, uk \in {None, Some(<<K1>>)}, nk \in {None, Some(NextKeys)},
     w \in {WUndefined, WValue(<<WitnessId(W1)>>, 1), WValue(<<WitnessId(W1)>>, 2)},
     sg \in {K1, K2}}
  \cup {[domain |-> Domain, created |-> 1, updateKeys |-> Some(<<K1>>), portable |-> None,
         nextKeyHashes |-> None, witness |-> WUndefined,
         watchers |-> Watchers("value", <<WatcherUrl>>), signer |-> K1, verifier |-> TRUE]}

UpdateOptions(l) ==
  {[updated |-> Len(l) + 1, updateKeys |-> uk, nextKeyHashes |-> nk, witness |-> WUndefined,
    watchers |-> NoWatchers, signer |-> sg, verifier |-> TRUE] :
     uk \in {None, Some(<<K1>>), Some(<<K2>>)}, nk \in {None, Some(NextKeys)}, sg \in {K1, K2}}
  \cup {[updated |-> Len(l) + 1, updateKeys |-> Some(<<K1>>), nextKeyHashes |-> None,
         witness |-> WUndefined, watchers |-> Watchers("null", <<>>), signer |-> K1,
         verifier |-> TRUE]}

DeactivateOptions(l) ==
  {[updated |-> Len(l) + 1, updateKeys |-> uk, signer |-> sg, verifier |-> TRUE] :
     uk \in {None, Some(<<K2>>)}, sg \in {K1, K2}}

\* the call of a mutator on the log l, with the watchers option given,
\* returned r: the controller keeps the log it returned, or the log it had when
\* it threw.  call.watchers keeps the watchers last given to a call that
\* returned.
Mutate(fn, l, given, r) ==
  /\ call' = [NoCall EXCEPT !.fn = fn, !.status = r.status, !.error = r.error, !.did = r.did,
                            !.input = l, !.meta = r.meta,
                            !.watchers = IF r.status = "ok" /\ given.tag # "undefined"
                                         THEN given ELSE call.watchers]
  /\ log' = IF r.status = "ok" THEN r.log ELSE l
  /\ options' = NoOptions
  /\ result' = NoResult
  /\ UNCHANGED env

Create(o) ==
  /\ Len(log) = 0
  /\ Mutate("createDID", log, o.watchers, createDID(o, env.remote))

Update(o) ==
  /\ Len(log) > 0 /\ Len(log) < MaxLen
  /\ Mutate("updateDID", log, o.watchers, updateDID(log, o, env))

Deactivate(o) ==
  /\ Len(log) > 0 /\ Len(log) < MaxLen
  /\ Mutate("deactivateDID", log, NoWatchers, deactivateDID(log, o, env))

NextMutate ==
  \/ \E o \in CreateOptions : Create(o)
  \/ \E o \in UpdateOptions(log) : Update(o)
  \/ \E o \in DeactivateOptions(log) : Deactivate(o)
  \/ Resolve(NoOptions)

SpecMutate == Init /\ [][NextMutate]_vars

\* a mutator call returned and a resolver has replayed the log it returned
MutatedAndResolved(fns) ==
  call.fn \in fns /\ call.status = "ok" /\ result.status # "none" /\ NoSelector(options)

\* the SCID segment of a DID: the third colon segment
ScidSegment(did) == SplitFirst(AfterNth(did, ":", 2), ":")

\* C13: after a successful createDID call the returned log has exactly one
\* entry, and resolving it succeeds and returns the same did, which starts
\* with did:webvh:, a meta.versionId equal to the versionId of the entry with
\* number 1, a meta.scid equal to the SCID segment of the did, and
\* meta.deactivated false.
C13_CreateThenResolve ==
  MutatedAndResolved({"createDID"}) =>
    /\ Len(log) = 1
    /\ Accepted
    /\ result.did = call.did /\ StartsWith(call.did, DidWebvhPrefix)
    /\ result.meta.versionId = log[1].versionId /\ VersionOf(log[1].versionId) = T("1")
    /\ result.meta.scid = Some(ScidSegment(call.did))
    /\ ~result.meta.deactivated

\* C14: a successful updateDID or deactivateDID call returns a log that
\* resolveDIDFromLog with the same verifier accepts: the mutator authorizes
\* its entry against the key set resolution applies to it.
C14_MutatorsAuthorizeAsResolution ==
  MutatedAndResolved({"updateDID", "deactivateDID"}) => Accepted

\* C15: an updateDID or deactivateDID call on a log that ends with the entry of
\* a deactivateDID call throws 'Cannot update deactivated DID' or 'DID already
\* deactivated', and the log is left as it was.
C15_MutatorsRefuseDeactivated ==
  ( /\ call.fn \in {"updateDID", "deactivateDID"}
    /\ Len(call.input) > 1
    /\ call.input[Len(call.input)].parameters.deactivated = Some(TRUE) )
  => /\ call.status = "error"
     /\ call.error = IF call.fn = "updateDID" THEN "Cannot update deactivated DID"
                     ELSE "DID already deactivated"
     /\ log = call.input

(***************************************************************************)
(* SpecValidate: validateWitnessParameter (src/unnamed/part_006, lines     *)
(* 311-330) is called with witness parameters of up to MaxWitnesses        *)
(* witnesses, did:key ones and others, repeated or not, and thresholds     *)
(* around the length of the list.                                          *)
(***************************************************************************)
MaxWitnesses == 3

WitnessIdChoices ==
  {WitnessId(W1), WitnessId(W2), WitnessId(W3), [id |-> WebvhDID(T("zQmExternal"), T("other.example"))]}

WitnessParameters ==
  {WValue(ws, t) : ws \in UNION {[1..n -> WitnessIdChoices] : n \in 0..MaxWitnesses},
                   t \in 0..(MaxWitnesses + 1)}

InitValidate ==
  /\ log = <<>>
  /\ env = QuietEnv
  /\ options = NoOptions
  /\ result = NoResult
  /\ \E w \in WitnessParameters :
       call = [NoCall EXCEPT !.fn = "validateWitnessParameter", !.witness = w]

\* validateWitnessParameter(call.witness) returns or throws
Validate ==
  /\ call.fn = "validateWitnessParameter" /\ call.status = "none"
  /\ call' = [call EXCEPT !.status = IF validateWitnessParameter(call.witness) = "" THEN "ok"
                                     ELSE "error",
                          !.error = validateWitnessParameter(call.witness)]
  /\ UNCHANGED <<log, env, options, result>>

NextValidate == Validate

SpecValidate == InitValidate /\ [][NextValidate]_vars

\* C20: validateWitnessParameter returns if and only if the list of witnesses
\* is not empty, every id starts with did:key:, the ids are pairwise distinct
\* and 1 <= threshold <= number of witnesses; in every other case it throws.
C20_WitnessParameterIsValidIff ==
  (call.fn = "validateWitnessParameter" /\ call.status # "none") =>
    LET ws == call.witness.witnesses
        t  == call.witness.threshold
    IN  /\ call.status \in {"ok", "error"}
        /\ call.status = "ok" <=>
             /\ Len(ws) > 0
             /\ \A i \in 1..Len(ws) : StartsWith(ws[i].id, DidKeyPrefix)
             /\ \A i, j \in 1..Len(ws) : i # j => ws[i].id # ws[j].id
             /\ 1 <= t /\ t <= Len(ws)
        /\ call.status = "error" <=> call.error # ""

C20_Witness ==
  /\ call.fn = "validateWitnessParameter" /\ call.status = "ok"
  /\ Len(call.witness.witnesses) = MaxWitnesses /\ call.witness.threshold = 2

(***************************************************************************)
(* SpecVerify: verifyWitnessProofs (src/unnamed/part_006, lines 348-441)   *)
(* is called for the first entry of a witnessed log with proof sets of up  *)
(* to MaxProofs proofs of all kinds, with and without a verifier.          *)
(***************************************************************************)
MaxProofs == 3

\* a proof whose cryptosuite was replaced
WithCryptosuite(proof, suite) == [proof EXCEPT !.cryptosuite = suite]

\* the proofs a witness proof file may hold for the versionId vid: proofs of
\* the declared witnesses W1 and W2, one of W3, which is not declared, one
\* under the id of W2 made by another key, and proofs of W1 and of W3 with
\* another cryptosuite
ProofKinds(vid) ==
  {createWitnessProof(W1, vid), createWitnessProof(W2, vid), createWitnessProof(W3, vid),
   ForgedWitnessProof(W2, K3, vid),
   WithCryptosuite(createWitnessProof(W1, vid), "invalid-suite"),
   WithCryptosuite(createWitnessProof(W3, vid), "invalid-suite")}

\* the proofs in one proof set, or the first of them in a set of its own
ProofFiles(vid) ==
  LET lists == UNION {[1..n -> ProofKinds(vid)] : n \in 0..MaxProofs}
  IN  {<<ProofSet(vid, ps)>> : ps \in lists}
      \cup {<<ProofSet(vid, <<ps[1]>>), ProofSet(vid, Tail(ps))>> : ps \in lists \ {<<>>}}

InitVerify ==
  /\ env = QuietEnv
  /\ result = NoResult
  /\ \E t \in 1..2 :
       /\ log = <<FirstEntry([Honest(1, K1) EXCEPT
                                !.witness = WValue(<<WitnessId(W1), WitnessId(W2)>>, t)])>>
       /\ call = [NoCall EXCEPT !.fn = "verifyWitnessProofs",
                                !.witness = WValue(<<WitnessId(W1), WitnessId(W2)>>, t)]
  /\ \E f \in ProofFiles(log[1].versionId), v \in BOOLEAN :
       options = [NoOptions EXCEPT !.witnessProofs = Some(f), !.verifier = v]

\* verifyWitnessProofs(log[0], options.witnessProofs, call.witness, options.verifier)
\* returns or throws
Verify ==
  /\ call.fn = "verifyWitnessProofs" /\ call.status = "none"
  /\ LET error == verifyWitnessProofs(log[1].versionId, options.witnessProofs[1], call.witness,
                                      options.verifier, env.remote)
     IN  call' = [call EXCEPT !.status = IF error = "" THEN "ok" ELSE "error", !.error = error]
  /\ UNCHANGED <<log, env, options, result>>

NextVerify == Verify

SpecVerify == InitVerify /\ [][NextVerify]_vars

\* verifyWitnessProofs was called with a verifier and has returned or thrown
Verified == call.fn = "verifyWitnessProofs" /\ call.status # "none" /\ options.verifier

\* the proofs the call was given, in the order of the proof sets
GivenProofs == AllProofs(options.witnessProofs[1])

\* the proofs with a cryptosuite other than eddsa-jcs-2022
OtherSuite == {i \in 1..Len(GivenProofs) : GivenProofs[i].cryptosuite # "eddsa-jcs-2022"}

\* the proofs before index i are verifying proofs of declared witnesses
VerifyingBefore(i) ==
  \A j \in 1..(i - 1) :
    \E w \in 1..Len(call.witness.witnesses) :
      IsVerifyingProofOf(GivenProofs[j], call.witness.witnesses[w], log[1].versionId)

\* C21 as stated: whenever any supplied proof has a cryptosuite other than
\* eddsa-jcs-2022, verifyWitnessProofs throws 'Invalid witness proof
\* cryptosuite'.
C21_AnyOtherCryptosuiteThrowsIt ==
  (Verified /\ OtherSuite # {}) => call.error = "Invalid witness proof cryptosuite"

\* C21 amended: whenever any supplied proof has a cryptosuite other than
\* eddsa-jcs-2022, verifyWitnessProofs throws, however many other proofs
\* verify; it throws 'Invalid witness proof cryptosuite' when the proofs before
\* the first such proof are verifying proofs of declared witnesses.
C21_OtherCryptosuiteIsRejected ==
  (Verified /\ OtherSuite # {}) =>
    /\ call.status = "error"
    /\ \A i \in OtherSuite :
         ((\A j \in OtherSuite : i <= j) /\ VerifyingBefore(i))
           => call.error = "Invalid witness proof cryptosuite"

C21_Witness ==
  /\ Verified /\ call.error = "Invalid witness proof cryptosuite"
  /\ Len(GivenProofs) = MaxProofs /\ MaxProofs \in OtherSuite
  /\ call.witness.threshold = 2 /\ VerifyingBefore(MaxProofs)
  /\ GivenProofs[1] # GivenProofs[2]

\* the proofs whose verificationMethod starts with the id of no declared witness
Undeclared ==
  {i \in 1..Len(GivenProofs) :
     \A w \in 1..Len(call.witness.witnesses) :
       ~StartsWith(GivenProofs[i].verificationMethod, call.witness.witnesses[w].id)}

\* C22 as stated: whenever any supplied proof's verificationMethod does not
\* start with the id of a declared witness, verifyWitnessProofs throws 'Proof
\* from unauthorized witness'.
C22_AnyUndeclaredProofThrowsIt ==
  (Verified /\ Undeclared # {}) => call.error = "Proof from unauthorized witness"

\* C22 amended: whenever any supplied proof's verificationMethod does not
\* start with the id of a declared witness, verifyWitnessProofs throws, even
\* when enough proofs of declared witnesses would meet the threshold; it
\* throws 'Proof from unauthorized witness' when the first such proof has the
\* cryptosuite eddsa-jcs-2022 and the proofs before it are verifying proofs of
\* declared witnesses.
C22_UndeclaredProofIsRejected ==
  (Verified /\ Undeclared # {}) =>
    /\ call.status = "error"
    /\ \A i \in Undeclared :
         ( /\ \A j \in Undeclared : i <= j
           /\ GivenProofs[i].cryptosuite = "eddsa-jcs-2022"
           /\ VerifyingBefore(i) )
           => call.error = "Proof from unauthorized witness"

C22_Witness ==
  /\ Verified /\ call.error = "Proof from unauthorized witness"
  /\ Len(GivenProofs) = MaxProofs /\ MaxProofs \in Undeclared /\ VerifyingBefore(MaxProofs)
  /\ GivenProofs[1] # GivenProofs[2] /\ call.witness.threshold = 2

(***************************************************************************)
(* SpecFold: logs written by the book in which every entry may set, keep   *)
(* or clear the witness parameter; the resolver is called at every         *)
(* version, with and without a witness proof of W1 for the last entry.     *)
(***************************************************************************)
FoldDials(n) ==
  {[Honest(n, K1) EXCEPT !.witness = w] :
     w \in {WUndefined, WNull, WValue(<<WitnessId(W1)>>, 1),
            WValue(<<WitnessId(W1), WitnessId(W2)>>, 2)}}

FoldOptions(l) ==
  LET vid == l[Len(l)].versionId
  IN  {[NoOptions EXCEPT !.witnessProofs = Some(f), !.versionNumber = k] :
         f \in {<<>>, <<ProofSet(vid, <<createWitnessProof(W1, vid)>>)>>}, k \in 0..Len(l)}

NextFold ==
  \/ \E d \in FoldDials(Len(log) + 1) : PublishEntry(EntryOf(log, d))
  \/ Len(log) > 0 /\ \E o \in FoldOptions(log) : Resolve(o)

SpecFold == Init /\ [][NextFold]_vars

\* the entries up to k that mention the witness parameter
WitnessMentions(k) == {j \in 1..k : log[j].parameters.witness.tag # "undefined"}

\* the witness parameter in force after entry k: that of the most recent
\* entry that mentions it; none when no entry does or when that entry says null
WitnessInForce(k) ==
  IF WitnessMentions(k) = {} THEN WUndefined
  ELSE LET m == CHOOSE j \in WitnessMentions(k) : \A i \in WitnessMentions(k) : i <= j
       IN  IF log[m].parameters.witness.tag = "null" THEN WUndefined
           ELSE log[m].parameters.witness

\* C23: the meta.witness returned at an entry is the witness of the most
\* recent entry that specified one: an entry that does not mention witness
\* leaves it unchanged, one that sets a witness replaces it, and an explicit
\* null clears it, after which no witness quorum is required.
C23_WitnessIsMostRecent ==
  Resolved =>
    /\ Accepted =>
         IF WTruthy(WitnessInForce(result.version))
         THEN result.meta.witness = WitnessInForce(result.version)
         ELSE ~WTruthy(result.meta.witness)
    /\ ~WTruthy(WitnessInForce(Len(log))) => Accepted

C23_Witness ==
  /\ Resolved /\ Accepted /\ NoSelector(options) /\ Len(log) = MaxLen
  /\ WTruthy(log[1].parameters.witness) /\ log[MaxLen - 1].parameters.witness = WNull
  /\ log[MaxLen].parameters.witness = WUndefined
  /\ options.witnessProofs # Some(<<>>)

\* C24: after createDID with watchers W, resolveDIDFromLog returns
\* meta.watchers = W; an update that does not specify watchers leaves
\* meta.watchers = W; an update with watchers null leaves meta.watchers empty.
C24_WatchersAreFolded ==
  (MutatedAndResolved({"createDID", "updateDID"}) /\ Accepted) =>
    result.meta.watchers = IF call.watchers.tag = "value" THEN Some(call.watchers.urls) ELSE None

(***************************************************************************)
(* SpecServices: logs written by the book whose documents bring services   *)
(* of their own, among them some with the ids of the default services; the *)
(* resolver is called at every version.                                    *)
(***************************************************************************)
OwnWhois == [id |-> T("#whois"), serviceEndpoint |-> T("https://whois.example/me.vp")]

OwnApi == [id |-> T("#api"), serviceEndpoint |-> T("https://api.example")]

ServiceDials(n) ==
  {[Honest(n, K1) EXCEPT !.service = sv] :
     sv \in {None, Some(<<OwnFiles>>), Some(<<OwnWhois>>), Some(<<OwnApi>>),
             Some(<<OwnWhois, OwnFiles>>)}}

NextServices ==
  \/ \E d \in ServiceDials(Len(log) + 1) : PublishEntry(EntryOf(log, d))
  \/ Len(log) > 0 /\ \E k \in 0..Len(log) : Resolve([NoOptions EXCEPT !.versionNumber = k])

SpecServices == Init /\ [][NextServices]_vars

\* the services of a document with this id
ServicesWithId(doc, id) == {k \in 1..Len(doc.service) : doc.service[k].id = id}

\* C25 as stated: every document returned has a service #files whose endpoint
\* is the base URL of the DID and a service #whois whose endpoint is
\* <base>/whois.vp.
C25_DefaultEndpointsInEveryDocument ==
  (Resolved /\ Accepted) =>
    \A id \in {T("#files"), T("#whois")} :
      \E k \in ServicesWithId(result.doc, id) :
        IsDefaultService(result.doc.service[k], log[result.version].state.id)

\* C25 amended: every document returned by a successful call has a service
\* with id #files and one with id #whois; its services are those of the state
\* of the entry, kept as they are, followed by the default #files (endpoint
\* the base URL) if and only if the state has no service with id #files and by
\* the default #whois (endpoint <base>/whois.vp) if and only if the state has
\* no service with id #whois; the log of the caller is not modified.
C25_DefaultServicesIffAbsent ==
  [][(result.status = "none" /\ result'.status = "ok")
       => /\ log' = log
          /\ IsStateWithDefaultServices(result'.doc, log'[result'.version].state)]_vars

C25_Witness ==
  /\ Resolved /\ Accepted /\ Len(log) = MaxLen /\ result.version = 2
  /\ log[2].state.service = Some(<<OwnWhois>>)
  /\ Len(result.doc.service) = 2 /\ result.doc.service[1] = OwnWhois
  /\ log[1].state.service = None

(***************************************************************************)
(* SpecVerifier: resolveDIDFromLog and verifyWitnessProofs are called with *)
(* and without a verifier, on logs whose first entry may fail the checks   *)
(* that come before its proofs.                                            *)
(***************************************************************************)
VerifierDials(n) ==
  IF n = 1
  THEN {[Honest(1, K1) EXCEPT !.scidOk = so, !.version = v, !.witness = w] :
          so \in BOOLEAN, v \in Versions(1),
          w \in {WUndefined, WValue(<<WitnessId(W1), WitnessId(W2)>>, 1)}}
  ELSE {Honest(n, K1)}

VerifierOptions ==
  {[NoOptions EXCEPT !.verifier = v, !.versionNumber = n, !.verificationMethod = m] :
     v \in BOOLEAN, n \in 0..1, m \in {None, Some(VmA)}}

\* the proof files verifyWitnessProofs is handed: none, a proof of a declared
\* witness, one of another cryptosuite, one of an undeclared witness
VerifierProofFiles(vid) ==
  { <<>>,
    <<ProofSet(vid, <<createWitnessProof(W1, vid)>>)>>,
    <<ProofSet(vid, <<WithCryptosuite(createWitnessProof(W1, vid), "invalid-suite")>>)>>,
    <<ProofSet(vid, <<createWitnessProof(W3, vid), createWitnessProof(W1, vid)>>)>> }

\* verifyWitnessProofs(log[0], f, witness, verifier) is called, with the
\* witnesses W1 and W2 and threshold 1, and returns or throws
CallVerify(f, verifier) ==
  /\ Len(log) > 0 /\ call.fn = "none" /\ result.status = "none"
  /\ LET witness == WValue(<<WitnessId(W1), WitnessId(W2)>>, 1)
         error   == verifyWitnessProofs(log[1].versionId, f, witness, verifier, env.remote)
     IN  call' = [NoCall EXCEPT !.fn = "verifyWitnessProofs", !.witness = witness,
                                !.status = IF error = "" THEN "ok" ELSE "error",
                                !.error = error]
  /\ options' = [NoOptions EXCEPT !.witnessProofs = Some(f), !.verifier = verifier]
  /\ UNCHANGED <<log, env, result>>

NextVerifier ==
  \/ \E d \in VerifierDials(Len(log) + 1) : PublishEntry(EntryOf(log, d))
  \/ Len(log) > 0 /\ \E o \in VerifierOptions : Resolve(o)
  \/ Len(log) > 0 /\ \E f \in VerifierProofFiles(log[1].versionId), v \in BOOLEAN : CallVerify(f, v)

SpecVerifier == Init /\ [][NextVerifier]_vars

\* this step is a call of resolveDIDFromLog on a non-empty log without verifier
ResolvesWithoutVerifier ==
  result.status = "none" /\ result'.status # "none" /\ Len(log') > 0 /\ ~options'.verifier

\* this step is a call of verifyWitnessProofs without verifier
VerifiesWithoutVerifier ==
  call.fn = "none" /\ call'.fn = "verifyWitnessProofs" /\ ~options'.verifier

\* C26 as stated: without a verifier, resolveDIDFromLog fails with 'Verifier
\* implementation is required' for every non-empty log, and verifyWitnessProofs
\* fails with the same error whatever the proofs are.
C26_NoVerifierAlwaysThrowsIt ==
  [][/\ ResolvesWithoutVerifier => result'.error = "Verifier implementation is required"
     /\ VerifiesWithoutVerifier => call'.error = "Verifier implementation is required"]_vars

\* the checks that come before the proofs of entry 1 pass: the selectors do
\* not conflict, the entry declares the protocol, its versionId starts with
\* "1-" and its SCID is the one derived from it
ReachesProofs(l, o) ==
  /\ ~SelectorsConflict(o)
  /\ l[1].parameters.method = Some(PROTOCOL)
  /\ VersionOf(l[1].versionId) = T("1")
  /\ ScidIsDerived(l[1])

\* C26 amended: without a verifier (and no bypass flag set), resolveDIDFromLog
\* fails for every non-empty log, with 'Verifier implementation is required'
\* whenever the checks that come before the proofs of entry 1 pass (selectors
\* not conflicting, protocol, versionId "1-...", SCID); verifyWitnessProofs
\* without a verifier fails with that error whatever the proofs are.
C26_VerifierIsMandatory ==
  [][/\ ResolvesWithoutVerifier =>
          /\ result'.status = "error"
          /\ ReachesProofs(log', options') =>
               result'.error = "Verifier implementation is required"
     /\ VerifiesWithoutVerifier =>
          /\ call'.status = "error"
          /\ call'.error = "Verifier implementation is required"]_vars

C26_Witness ==
  /\ Resolved /\ ~options.verifier /\ Len(log) = MaxLen
  /\ ReachesProofs(log, options)
  /\ result.error = "Verifier implementation is required"
  /\ call.fn = "verifyWitnessProofs" /\ call.error = "Verifier implementation is required"

(***************************************************************************)
(* SpecGenesis: first entries whose stored versionId carries the derived   *)
(* hash or another one, signed over the entry as stored or over the entry  *)
(* with the recomputed versionId (a first entry whose versionId was        *)
(* changed after signing).                                                 *)
(***************************************************************************)
GenesisDials(n) ==
  IF n = 1
  THEN {[Honest(1, K1) EXCEPT !.hashOk = ho, !.signsStored = ss, !.scidOk = so] :
          ho \in BOOLEAN, ss \in BOOLEAN, so \in BOOLEAN}
  ELSE {[Honest(n, K1) EXCEPT !.hashOk = ho, !.domain = dm] :
          ho \in BOOLEAN, dm \in {Domain, OtherDomain}}

NextGenesis ==
  \/ \E d \in GenesisDials(Len(log) + 1) : PublishEntry(EntryOf(log, d))
  \/ Len(log) > 0 /\ \E k \in 0..Len(log) :
       Resolve([NoOptions EXCEPT !.witnessProofs = Some(<<>>), !.versionNumber = k])

SpecGenesis == Init /\ [][NextGenesis]_vars

\* C27: a log is accepted only if the stored versionId of entry 1 is "1-"
\* followed by the hash recomputed from the entry with the SCID substituted
\* back; an entry 1 that carries any other hash is rejected.
C27_FirstVersionIdIsRecomputedHash ==
  (Resolved /\ Accepted) =>
    log[1].versionId = T("1") \o T("-") \o deriveHash(PrelimText(log[1]))

\* C28: in every meta returned by resolveDIDFromLog, createDID and updateDID,
\* prerotation is true if and only if nextKeyHashes is non-empty.
C28_PrerotationIffNextKeyHashes ==
  /\ Accepted => (result.meta.prerotation <=> Len(result.meta.nextKeyHashes) > 0)
  /\ (call.fn \in {"createDID", "updateDID"} /\ call.status = "ok") =>
       (call.meta.prerotation <=> Len(call.meta.nextKeyHashes) > 0)

\* C29: whenever a call returns the final entry of the log while a witness
\* parameter is active for it, the declared witnesses with a verifying proof
\* for that entry reach the threshold, whichever selector the call was given.
C29_FinalEntryIsWitnessed ==
  (Resolved /\ Accepted /\ result.version = Len(log) /\ WTruthy(result.meta.witness)) =>
    Cardinality(VerifyingWitnesses) >= result.meta.witness.threshold

\* C30: a successful call returns a version that satisfies the selector it was
\* given: with versionNumber = n the returned meta.versionId has the numeric
\* prefix n, with versionId = v it is v, and with verificationMethod = m the
\* returned document contains m; when no entry satisfies the selector the
\* call fails.
C30_ReturnedVersionSatisfiesSelector ==
  (Resolved /\ Accepted) =>
    /\ options.versionNumber # 0 =>
         parseInt(VersionOf(result.meta.versionId)) = options.versionNumber
    /\ IsSome(options.versionId) => result.meta.versionId = options.versionId[1]
    /\ IsSome(options.verificationMethod) =>
         findVerificationMethod(result.doc, options.verificationMethod[1])

\* the call has a versionTime selector and no other
TimeSelectorOnly(o) ==
  /\ o.versionTime # 0 /\ o.versionNumber = 0
  /\ o.versionId = None /\ o.verificationMethod = None

\* the entries of the log whose versionTime is not later than t
NotLaterThan(t) == {k \in 1..Len(log) : log[k].versionTime <= t}

\* C31: in a log with strictly increasing versionTime, a call with the
\* versionTime selector T returns the entry with the greatest version number
\* whose versionTime is not later than T (entry k when T is the versionTime
\* of entry k), and returns no document when every entry is later than T.
C31_ResolvesAtOrBeforeTime ==
  ( /\ Resolved /\ TimeSelectorOnly(options)
    /\ \A n \in 1..(Len(log) - 1) : log[n].versionTime < log[n + 1].versionTime )
  => IF NotLaterThan(options.versionTime) = {} THEN ~Accepted
     ELSE /\ Accepted
          /\ result.version \in NotLaterThan(options.versionTime)
          /\ \A k \in NotLaterThan(options.versionTime) : k <= result.version

(***************************************************************************)
(* SpecSteps: documentStateIsValid one step at a time (interfaces.ts lines *)
(* 230-282).  The loop examines proof i, then awaits verifier.verify for   *)
(* it; call records the index, the position in the loop and the proofs the *)
(* verifier was invoked for.                                               *)
(***************************************************************************)
\* the proof lists of the entry: update key K1 with a good or a bad
\* signature, K2 that is no update key
StepProofLists ==
  UNION {[1..n -> {Dial("did:key", K1, TRUE), Dial("did:key", K1, FALSE),
                   Dial("did:key", K2, TRUE)}] : n \in 0..MaxProofs}

\* documentStateIsValid was entered with a verifier and is at the head of
\* its loop (line 230, i = 0)
StepCall ==
  [fn |-> "documentStateIsValid", status |-> "none", error |-> "", did |-> <<>>,
   input |-> <<>>, witness |-> WUndefined, meta |-> InitialMeta, watchers |-> NoWatchers,
   i |-> 1, pc |-> "examine", invoked |-> <<>>]

InitSteps ==
  /\ env = QuietEnv
  /\ options = NoOptions
  /\ result = NoResult
  /\ \E ps \in StepProofLists : log = <<FirstEntry([Honest(1, K1) EXCEPT !.proofs = ps])>>
  /\ call = StepCall

\* variant: the verifier is called before the proof is looked at
ProofStep_VerifierFirst(c, restText, proofs, updateKeys, witness, remote) ==
  IF c.pc = "examine"
  THEN IF c.i > Len(proofs) THEN [c EXCEPT !.status = "ok", !.pc = "done"]
       ELSE [c EXCEPT !.pc = "verify", !.invoked = Append(@, c.i)]
  ELSE LET pre == ProofPrecheck(proofs[c.i], updateKeys, witness, remote)
       IN  IF pre # "" THEN [c EXCEPT !.status = "error", !.error = pre, !.pc = "done"]
           ELSE IF ProofVerifies(restText, proofs[c.i], remote)
           THEN [c EXCEPT !.pc = "examine", !.i = @ + 1]
           ELSE [c EXCEPT !.status = "error", !.error = "Proof failed verification",
                          !.pc = "done"]

\* one step of the loop of documentStateIsValid.  At "examine": the loop ends
\* and true is returned (line 281), or the checks of proof i before the
\* verifier run (233-262); at "verify": verifier.verify is awaited for proof
\* i (270-274) and the loop goes on or throws (276-278)
ProofStep(c, restText, proofs, updateKeys, witness, remote) ==
  IF c.pc = "examine"
  THEN IF c.i > Len(proofs) THEN [c EXCEPT !.status = "ok", !.pc = "done"]
       ELSE LET pre == ProofPrecheck(proofs[c.i], updateKeys, witness, remote)
            IN  IF pre # "" THEN [c EXCEPT !.status = "error", !.error = pre, !.pc = "done"]
                ELSE [c EXCEPT !.pc = "verify"]
  ELSE IF ProofVerifies(restText, proofs[c.i], remote)
       THEN [c EXCEPT !.pc = "examine", !.i = @ + 1, !.invoked = Append(@, c.i)]
       ELSE [c EXCEPT !.status = "error", !.error = "Proof failed verification",
                      !.pc = "done", !.invoked = Append(@, c.i)]

\* documentStateIsValid(log[0], log[0].parameters.updateKeys, undefined,
\* false, verifier) takes its next step
StepProof ==
  /\ call.fn = "documentStateIsValid" /\ call.status = "none"
  /\ call' = ProofStep(call, RestText(log[1]), log[1].proof, log[1].parameters.updateKeys,
                       WUndefined, env.remote)
  /\ UNCHANGED <<log, env, options, result>>

NextSteps == StepProof

SpecSteps == InitSteps /\ [][NextSteps]_vars

\* the error of proof j of the entry, "" when it is authorized and verifies
StepProofError(j) ==
  CheckProof(RestText(log[1]), log[1].proof[j], log[1].parameters.updateKeys, WUndefined,
             env.remote)

\* C32: documentStateIsValid examines the proofs in list order, one at a
\* time: the verifier is invoked at most once per proof, in order, and only
\* for a proof that passed the authorization check; the first proof that is
\* unauthorized or fails verification aborts with its error (the failed
\* verification of proof i) without the verifier being invoked for a later
\* proof; true is returned only when every proof verified.
C32_ProofsExaminedInOrder ==
  call.fn = "documentStateIsValid" =>
    /\ \A j \in 1..Len(call.invoked) :
         /\ call.invoked[j] = j
         /\ ProofPrecheck(log[1].proof[j], log[1].parameters.updateKeys, WUndefined,
                          env.remote) = ""
    /\ call.status = "error" =>
         /\ call.i \in 1..Len(log[1].proof)
         /\ call.error = StepProofError(call.i) /\ call.error # ""
         /\ \A j \in 1..(call.i - 1) : StepProofError(j) = ""
         /\ Len(call.invoked) <= call.i
         /\ call.error = "Proof failed verification" <=> Len(call.invoked) = call.i
    /\ call.status = "ok" =>
         /\ \A j \in 1..Len(log[1].proof) : StepProofError(j) = ""
         /\ Len(call.invoked) = Len(log[1].proof)
    /\ call.status # "none" =>
         call.error = documentStateIsValid(RestText(log[1]), log[1].proof,
                                           log[1].parameters.updateKeys, WUndefined, FALSE,
                                           TRUE, env.remote)

C32_Witness ==
  /\ call.fn = "documentStateIsValid" /\ call.status = "error"
  /\ Len(log[1].proof) = MaxProofs /\ call.i = 2 /\ call.invoked = <<1, 2>>
  /\ call.error = "Proof failed verification"
  /\ StepProofError(3) = "Key is not authorized to update."

(***************************************************************************)
(* SpecGates: entries n>1 that fail several gates at once: wrong or        *)
(* non-canonical version number, moved host of a non-portable DID, bad or  *)
(* unauthorized proof, update keys that were not committed.                *)
(***************************************************************************)
GateDials(n) ==
  IF n = 1
  THEN {[Honest(1, K1) EXCEPT !.nextKeyHashes = nk] :
          nk \in {None, Some(<<deriveNextKeyHash(K2)>>)}}
  ELSE {[Honest(n, K1) EXCEPT !.version = v, !.domain = dm, !.proofs = ps, !.updateKeys = uk] :
          v \in Versions(n), dm \in {Domain, OtherDomain},
          ps \in {<<Dial("did:key", K1, TRUE)>>, <<Dial("did:key", K1, FALSE)>>,
                  <<Dial("did:key", K2, TRUE)>>},
          uk \in {None, Some(<<K1>>), Some(<<K2>>)}}

NextGates ==
  \/ \E d \in GateDials(Len(log) + 1) : PublishEntry(EntryOf(log, d))
  \/ Resolve([NoOptions EXCEPT !.witnessProofs = Some(<<>>)])

SpecGates == Init /\ [][NextGates]_vars

\* the gates the last entry of the log fails, each taken alone against the
\* meta of the log without it: 1 version number, 2 portability, 3 proofs,
\* 4 hash chain, 5 pre-rotation
FailingGates ==
  LET n    == Len(log)
      e    == log[n]
      prev == resolveDIDFromLog(SubSeq(log, 1, n - 1),
                                [NoOptions EXCEPT !.witnessProofs = Some(<<>>)], env).meta
  IN  {g \in 1..5 :
         \/ g = 1 /\ parseInt(VersionOf(e.versionId)) # n
         \/ g = 2 /\ ~prev.portable /\ HostOf(n) # HostOf(n - 1)
         \/ g = 3 /\ documentStateIsValid(RestText(e), e.proof, AuthorizationKeys(prev, e),
                                          prev.witness, FALSE, TRUE, env.remote) # ""
         \/ g = 4 /\ e.versionId # NumText(n) \o T("-") \o EntryHashOf(e.versionId)
         \/ g = 5 /\ prev.prerotation
                  /\ \E i \in 1..Len(OwnUpdateKeys(e)) :
                       \A j \in 1..Len(prev.nextKeyHashes) :
                         prev.nextKeyHashes[j] # deriveNextKeyHash(OwnUpdateKeys(e)[i])}

\* the error thrown by gate g on the last entry of the log
GateError(g) ==
  LET n    == Len(log)
      prev == resolveDIDFromLog(SubSeq(log, 1, n - 1),
                                [NoOptions EXCEPT !.witnessProofs = Some(<<>>)], env).meta
  IN  CASE g = 1 -> "version in log doesn't match expected"
        [] g = 2 -> "Cannot move DID: portability is disabled"
        [] g = 3 -> documentStateIsValid(RestText(log[n]), log[n].proof,
                                         AuthorizationKeys(prev, log[n]), prev.witness, FALSE,
                                         TRUE, env.remote)
        [] g = 4 -> "Hash chain broken"
        [] g = 5 -> "Invalid update key. Not found in nextKeyHashes"

\* C33: an entry n>1 fails with the error of the first gate it fails, in the
\* order version number, portability, proofs, hash chain, pre-rotation (an
\* entry that moved a non-portable DID and carries a bad proof fails with the
\* portability error); it is accepted when it fails none, and its parameter
\* transitions are then applied to the meta of the entries before it.
C33_FirstFailingGateDecides ==
  (Resolved /\ Len(log) >= 2) =>
    /\ FailingGates # {} =>
         /\ result.status = "error" /\ result.version = Len(log)
         /\ result.error = GateError(CHOOSE g \in FailingGates : \A h \in FailingGates : g <= h)
    /\ FailingGates = {} =>
         /\ Accepted
         /\ result.meta =
              UpdateMeta(resolveDIDFromLog(SubSeq(log, 1, Len(log) - 1),
                                           [NoOptions EXCEPT !.witnessProofs = Some(<<>>)],
                                           env).meta, log[Len(log)])

C33_Witness ==
  /\ Resolved /\ Len(log) = MaxLen /\ FailingGates = {2, 3}
  /\ HostOf(MaxLen) # HostOf(1)
  /\ result.error = "Cannot move DID: portability is disabled"

(***************************************************************************)
(* SpecFrame: later entries whose parameters declare portable or a scid,   *)
(* and that may move the DID to another host.                              *)
(***************************************************************************)
FrameDials(n) ==
  IF n = 1
  THEN {[Honest(1, K1) EXCEPT !.portable = pt] : pt \in {None, Some(FALSE), Some(TRUE)}}
  ELSE {[Honest(n, K1) EXCEPT !.portable = pt, !.domain = dm] :
          pt \in {None, Some(FALSE), Some(TRUE)}, dm \in {Domain, OtherDomain}}

NextFrame ==
  \/ \E d \in FrameDials(Len(log) + 1), declared \in {None, Some(Bogus)} :
       PublishEntry(IF Len(log) = 0 THEN FirstEntry(d)
                    ELSE LaterEntryDeclaring(ScidPattern(log[1].parameters.scid), d, declared))
  \/ \E k \in 0..Len(log) :
       Resolve([NoOptions EXCEPT !.witnessProofs = Some(<<>>), !.versionNumber = k])

SpecFrame == Init /\ [][NextFrame]_vars

\* C34: for every log and every entry returned, meta.portable, meta.scid and
\* meta.created are those of entry 1, also when later entries declare
\* portable or scid; a DID created non-portable stays on the host of entry 1.
C34_FirstEntryValuesAreFixed ==
  (Resolved /\ Accepted) =>
    /\ result.meta.portable = (log[1].parameters.portable = Some(TRUE))
    /\ result.meta.scid = log[1].parameters.scid
    /\ result.meta.created = log[1].versionTime
    /\ log[1].parameters.portable # Some(TRUE) =>
         \A k \in 1..result.version : HostOf(k) = HostOf(1)

C34_Witness ==
  /\ Resolved /\ Accepted /\ Len(log) = MaxLen /\ result.version = MaxLen
  /\ log[1].parameters.portable = Some(FALSE)
  /\ log[2].parameters.portable = Some(TRUE) /\ log[3].parameters.scid = Some(Bogus)
  /\ ~result.meta.portable

\* C35: a successful updateDID or deactivateDID on a log of length n returns
\* a log of length n+1 whose first n entries are the entries of the input, in
\* order and unmodified, and whose last entry has a versionId with numeric
\* prefix n+1; the new entry of deactivateDID carries the document state of
\* the last entry of the input.
C35_MutatorsAppend ==
  (call.fn \in {"updateDID", "deactivateDID"} /\ call.status = "ok") =>
    /\ Len(log) = Len(call.input) + 1
    /\ SubSeq(log, 1, Len(call.input)) = call.input
    /\ parseInt(VersionOf(log[Len(log)].versionId)) = Len(call.input) + 1
    /\ call.fn = "deactivateDID" => log[Len(log)].state = call.input[Len(call.input)].state

C35_Witness ==
  /\ call.fn = "deactivateDID" /\ call.status = "ok" /\ Len(call.input) = MaxLen - 1
  /\ Len(log) = MaxLen /\ log[MaxLen].parameters.deactivated = Some(TRUE)
  /\ log[MaxLen - 1].parameters.deactivated # Some(TRUE)

\* the declared witnesses with a verifying proof among the first k proofs
ApprovingWitnesses(k) ==
  {w \in 1..Len(call.witness.witnesses) :
     \E j \in 1..k :
       IsVerifyingProofOf(GivenProofs[j], call.witness.witnesses[w], log[1].versionId)}

\* the approval count of verifyWitnessProofs after the first k proofs
ApprovalsAfter(k) ==
  WitnessLoop(SubSeq(GivenProofs, 1, k), 1, 0, {}, log[1].versionId, call.witness, env.remote)

\* C36: after any number of proofs processed without a throw the approval
\* count of verifyWitnessProofs is the number of distinct declared witnesses
\* with a verifying proof among them (several proofs of one witness, in one
\* or in several proof sets, count once), it never exceeds the number of
\* declared witnesses, and when all proofs were processed the call passes if
\* and only if the count is at least the threshold.
C36_ApprovalsCountDistinctWitnesses ==
  Verified =>
    /\ \A k \in 0..Len(GivenProofs) :
         ApprovalsAfter(k).error = "" =>
           /\ ApprovalsAfter(k).approvals = Cardinality(ApprovingWitnesses(k))
           /\ ApprovalsAfter(k).approvals <= Len(call.witness.witnesses)
    /\ ApprovalsAfter(Len(GivenProofs)).error = "" =>
         (call.status = "ok" <=>
            ApprovalsAfter(Len(GivenProofs)).approvals >= call.witness.threshold)

C36_Witness ==
  /\ Verified /\ Len(options.witnessProofs[1]) = 2 /\ Len(GivenProofs) = MaxProofs
  /\ GivenProofs[1] = GivenProofs[2] /\ GivenProofs[1] = GivenProofs[3]
  /\ ApprovalsAfter(MaxProofs).error = "" /\ ApprovalsAfter(MaxProofs).approvals = 1
  /\ call.witness.threshold = 2 /\ call.error = "Witness threshold not met"

(***************************************************************************)
(* SpecReject: the logs and witness proof files of SpecWitness, handed to  *)
(* resolveDIDFromLog and to verifyWitnessProofs itself.                    *)
(***************************************************************************)
NextReject ==
  \/ \E d \in WitnessDials(Len(log) + 1) : PublishEntry(EntryOf(log, d))
  \/ Len(log) > 0 /\ \E o \in WitnessOptions(log) : Resolve(o)
  \/ Len(log) > 0 /\ \E o \in WitnessOptions(log) :
       IsSome(o.witnessProofs) /\ CallVerify(o.witnessProofs[1], TRUE)

SpecReject == Init /\ [][NextReject]_vars

\* the loop over the proofs ps reaches proof i without a throw, and proof i
\* is a proof of a declared witness that no proof before it is of, with a
\* signature the verifier rejects
RejectedAt(ps, i, witness, versionId, remote) ==
  /\ WitnessLoop(SubSeq(ps, 1, i - 1), 1, 0, {}, versionId, witness, remote).error = ""
  /\ ps[i].cryptosuite = "eddsa-jcs-2022"
  /\ FindWitness(witness, ps[i].verificationMethod) # 0
  /\ \A j \in 1..(i - 1) :
       FindWitness(witness, ps[j].verificationMethod) # FindWitness(witness, ps[i].verificationMethod)
  /\ resolveVM(ps[i].verificationMethod, remote).tag = "vm"
  /\ ~VerifierVerify(ps[i].proofValue,
                     SigningInput(ProofText(ps[i]), WitnessDataText(versionId)),
                     resolveVM(ps[i].verificationMethod, remote).key)

\* the proofs of the proof sets of the file for this versionId
ProofsFor(file, versionId) ==
  AllProofs(SelectSeq(file, LAMBDA wp : wp.versionId = versionId))

\* C37: a witness proof of a declared, not yet counted witness whose
\* signature the verifier rejects makes verifyWitnessProofs, and the
\* resolution that calls it for the final entry, fail with 'Invalid witness
\* proof: Invalid witness proof signature'.
C37_RejectedWitnessProofThrows ==
  [][/\ (call.fn = "none" /\ call'.fn = "verifyWitnessProofs") =>
          \A i \in 1..Len(AllProofs(options'.witnessProofs[1])) :
            RejectedAt(AllProofs(options'.witnessProofs[1]), i, call'.witness,
                       log'[1].versionId, env'.remote)
            => call'.error = "Invalid witness proof: Invalid witness proof signature"
     /\ ( /\ result.status = "none" /\ result'.status # "none" /\ Len(log') > 0
          /\ IsSome(options'.witnessProofs) /\ WTruthy(log'[1].parameters.witness) ) =>
          \A i \in 1..Len(ProofsFor(options'.witnessProofs[1], log'[Len(log')].versionId)) :
            RejectedAt(ProofsFor(options'.witnessProofs[1], log'[Len(log')].versionId), i,
                       log'[1].parameters.witness, log'[Len(log')].versionId, env'.remote)
            => result'.error = "Invalid witness proof: Invalid witness proof signature"]_vars

C37_Witness ==
  /\ Resolved /\ Len(log) = MaxLen /\ IsSome(options.witnessProofs)
  /\ WTruthy(log[1].parameters.witness)
  /\ Len(ProofsFor(options.witnessProofs[1], log[MaxLen].versionId)) >= 2
  /\ RejectedAt(ProofsFor(options.witnessProofs[1], log[MaxLen].versionId), 2,
                log[1].parameters.witness, log[MaxLen].versionId, env.remote)
  /\ result.error = "Invalid witness proof: Invalid witness proof signature"
  /\ call.fn = "verifyWitnessProofs"
  /\ call.error = "Invalid witness proof: Invalid witness proof signature"

\* the orders the proofs ps can be supplied in
Orders(ps) ==
  {[k \in 1..Len(ps) |-> ps[f[k]]] :
     f \in {g \in [1..Len(ps) -> 1..Len(ps)] : \A i, j \in 1..Len(ps) : i # j => g[i] # g[j]}}

\* verifyWitnessProofs passes on the proofs ps, supplied as one proof set
PassesOn(ps) ==
  verifyWitnessProofs(log[1].versionId, <<ProofSet(log[1].versionId, ps)>>, call.witness, TRUE,
                      env.remote) = ""

\* C38 as stated: the outcome of verifyWitnessProofs is the same for every
\* order of the supplied proofs, within and across proof sets.
C38_OutcomeIsOrderIndependent ==
  Verified => \A ps \in Orders(GivenProofs) : PassesOn(ps) <=> call.status = "ok"

\* the proof, supplied alone, is processed without a throw
PassesAlone(proof) ==
  WitnessLoop(<<proof>>, 1, 0, {}, log[1].versionId, call.witness, env.remote).error = ""

\* the proofs of any one declared witness either all pass alone or all throw
UniformPerWitness(ps) ==
  \A i, j \in 1..Len(ps) :
    ( /\ FindWitness(call.witness, ps[i].verificationMethod) # 0
      /\ FindWitness(call.witness, ps[i].verificationMethod)
           = FindWitness(call.witness, ps[j].verificationMethod) )
    => (PassesAlone(ps[i]) <=> PassesAlone(ps[j]))

\* C38 amended: for every witness parameter and every multiset of proofs in
\* which the proofs of any one declared witness either all verify or all fail,
\* the outcome of verifyWitnessProofs (pass or fail) is the same for every
\* order of the proofs, within and across proof sets.
C38_OrderIndependentWhenUniform ==
  (Verified /\ UniformPerWitness(GivenProofs)) =>
    \A ps \in Orders(GivenProofs) : PassesOn(ps) <=> call.status = "ok"

C38_Witness ==
  /\ Verified /\ UniformPerWitness(GivenProofs) /\ Len(GivenProofs) = MaxProofs
  /\ Len(options.witnessProofs[1]) = 2
  /\ GivenProofs[1] = GivenProofs[3] /\ GivenProofs[1] # GivenProofs[2]
  /\ call.witness.threshold = 2 /\ call.status = "ok"

\* the fields of a meta that a mutator and the resolver both report
SharedMetaFields ==
  {"versionId", "updated", "scid", "updateKeys", "nextKeyHashes", "prerotation", "portable",
   "deactivated", "witness"}

\* C39: the meta returned by createDID, updateDID and deactivateDID agrees
\* with the meta resolveDIDFromLog returns for the log they return, on the
\* fields versionId, updated, scid, updateKeys, nextKeyHashes, prerotation,
\* portable, deactivated and witness.
C39_MutatorMetaAgreesWithResolution ==
  (MutatedAndResolved({"createDID", "updateDID", "deactivateDID"}) /\ Accepted) =>
    \A f \in SharedMetaFields : call.meta[f] = result.meta[f]

(***************************************************************************)
(* The deriveHash memo (utils.ts 274-307).  hashCache is a module-level    *)
(* Map keyed by JSON.stringify(input); a call looks its input up, and on a *)
(* miss canonicalizes it, awaits createHash and stores the encoded hash.   *)
(* Calls run concurrently: other calls' steps may come between the lookup  *)
(* and the store of one call.  An input is a JSON object, the sequence of  *)
(* its properties in insertion order.                                      *)
(***************************************************************************)
MaxCalls == 3

Prop(name, value) == [name |-> name, value |-> value]

\* property names in code-unit order, the order of canonicalize
PropNames == <<"a", "b">>

HashInputs ==
  {<<>>, <<Prop("a", "1")>>, <<Prop("a", "2")>>, <<Prop("a", "1"), Prop("b", "1")>>,
   <<Prop("b", "1"), Prop("a", "1")>>, <<Prop("a", "2"), Prop("b", "1")>>}

PropText(p) == Str(<<p.name, ":", p.value, ",">>)

RECURSIVE PropsText(_)
PropsText(props) ==
  IF props = <<>> THEN <<>> ELSE PropText(Head(props)) \o PropsText(Tail(props))

\* variant: the key names the properties without their values
JSONStringify_NamesOnly(input) ==
  T("{") \o PropsText([i \in 1..Len(input) |-> Prop(input[i].name, "")]) \o T("}")

\* JSON.stringify(input): the properties in insertion order
JSONStringify(input) ==
  T("{") \o PropsText(input) \o T("}")

RECURSIVE SortedProps(_, _)
SortedProps(input, names) ==
  IF names = <<>> THEN <<>>
  ELSE SelectSeq(input, LAMBDA p : p.name = Head(names)) \o SortedProps(input, Tail(names))

\* canonicalize(input) of json-canonicalize: the properties sorted by name
canonicalize(input) == T("{") \o PropsText(SortedProps(input, PropNames)) \o T("}")

\* hashCache.get(key), undefined (None) when the key is absent
getCachedHash(cache, input) ==
  LET key == JSONStringify(input)
  IN  IF \E c \in cache : c.key = key
      THEN Some((CHOOSE c \in cache : c.key = key).hash)
      ELSE None

\* hashCache.set(key, hash)
setCachedHash(cache, input, hash) ==
  LET key == JSONStringify(input)
  IN  {c \in cache : c.key # key} \cup {[key |-> key, hash |-> hash]}

\* no deriveHash call was made, the cache is empty
MemoCall ==
  [fn |-> "deriveHash", status |-> "none", error |-> "", did |-> <<>>, input |-> <<>>,
   witness |-> WUndefined, meta |-> InitialMeta, watchers |-> NoWatchers,
   hashCache |-> {}, calls |-> <<>>]

InitMemo ==
  /\ log = <<>>
  /\ env = QuietEnv
  /\ options = NoOptions
  /\ result = NoResult
  /\ call = MemoCall

\* deriveHash(input) is called and runs to its await (296-302): a cached
\* hash that is truthy is returned, otherwise the input is canonicalized
\* and createHash is awaited
DeriveHashBegin(input) ==
  /\ call.fn = "deriveHash"
  /\ Len(call.calls) < MaxCalls
  /\ LET cached == getCachedHash(call.hashCache, input)
     IN  call' = [call EXCEPT !.calls = Append(@,
                    IF IsSome(cached) /\ cached[1] # <<>>
                    THEN [input |-> input, pc |-> "hit", data |-> <<>>, returned |-> cached[1]]
                    ELSE [input |-> input, pc |-> "await", data |-> canonicalize(input),
                          returned |-> <<>>])]
  /\ UNCHANGED <<log, env, options, result>>

\* the awaited createHash of call i settles (302-306): the hash is encoded,
\* stored under the key of the input and returned
DeriveHashEnd(i) ==
  /\ call.fn = "deriveHash"
  /\ i \in 1..Len(call.calls)
  /\ call.calls[i].pc = "await"
  /\ LET hash == deriveHash(call.calls[i].data)
     IN  call' = [call EXCEPT !.hashCache = setCachedHash(@, call.calls[i].input, hash),
                              !.calls[i].pc = "computed",
                              !.calls[i].returned = hash]
  /\ UNCHANGED <<log, env, options, result>>

NextMemo ==
  \/ \E input \in HashInputs : DeriveHashBegin(input)
  \/ \E i \in 1..MaxCalls : DeriveHashEnd(i)

SpecMemo == InitMemo /\ [][NextMemo]_vars

\* C40: the deriveHash memo is transparent: in every interleaving of
\* concurrent deriveHash calls, a call that has returned, from the cache or
\* from its own computation, returned the hash that an uncached computation
\* of its own input gives, and the cache holds nothing else.
C40_MemoIsTransparent ==
  call.fn = "deriveHash" =>
    /\ \A i \in 1..Len(call.calls) :
         call.calls[i].pc # "await" =>
           call.calls[i].returned = deriveHash(canonicalize(call.calls[i].input))
    /\ \A c \in call.hashCache : \A input \in HashInputs :
         c.key = JSONStringify(input) => c.hash = deriveHash(canonicalize(input))

\* a call was answered from the cache while an earlier call on the same
\* input, begun before the hash was stored, is still awaiting its hash
C40_Witness ==
  /\ call.fn = "deriveHash"
  /\ \E i, j \in 1..Len(call.calls) :
       /\ j < i
       /\ call.calls[i].pc = "hit"
       /\ call.calls[j].pc = "await"
       /\ call.calls[j].input = call.calls[i].input

=============================================================================
